---- MODULE Spec2Model ----
(***************************************************************************)
(* A model of the moq-rs serve cache and session handshake.                *)
(*                                                                         *)
(*   - the track cache of moq-transport/src/serve/track.rs: State, the     *)
(*     TrackPublisher operations, TrackSubscriber::next, clone and drop;   *)
(*   - the object cache of moq-transport/src/cache/object.rs;              *)
(*   - the sized object of moq-transport/src/serve/stream.rs: StreamObject *)
(*     with its StreamObjectWriter and StreamObjectReader;                 *)
(*   - the role negotiation of moq-transport/src/session.rs.               *)
(*                                                                         *)
(* Every lock section of the source (the block between lock()/lock_mut()   *)
(* and the release of the guard) is one atomic step.  A reader that finds  *)
(* nothing and awaits the notification takes no step: its next() action is *)
(* enabled again once the state it re-reads under the lock lets it return. *)
(***************************************************************************)
EXTENDS Integers, Sequences, FiniteSets, TLC

\* ------------------------------------------------------------------------
\* Bounds and input domains
\* ------------------------------------------------------------------------

\* Cap on State.epoch: no insertion is explored on a track that reached it.
MaxEpoch == 3

\* Number of TrackSubscriber handles (the original and its clones).
MaxReaders == 2

GroupIds == {1, 2, 3}

ObjectIds == {0}

SendOrders == {0}

\* The ServeError values handed to TrackPublisher::close.
CloseErrors == {"Done", "Closed"}

Readers == 1..MaxReaders

VARIABLES
    state,        \* track.rs State: cache, epoch, closed
    publisher,    \* the TrackPublisher handle: "alive" or "dropped"
    subscribers,  \* the TrackSubscriber handles
    called,       \* what the last TrackPublisher call returned
    latest,       \* the largest group id create_group accepted or found cached (0: none)
    objInfo,         \* cache/object.rs Info: the declared size
    objState,        \* cache/object.rs State: chunks (their lengths), closed
    objPublisher,    \* cache/object.rs Publisher: the handle and its remain
    objSubscribers,  \* cache/object.rs Subscriber handles: alive, index
    objCalled,       \* what the last Publisher call returned
    streamObject,    \* serve/stream.rs StreamObject: the declared size
    streamState,     \* serve/stream.rs StreamObjectState behind its util::State
    streamWriter,    \* serve/stream.rs StreamObjectWriter: the handle and its remain
    streamReaders,   \* serve/stream.rs StreamObjectReader handles: alive, index
    streamCalled,    \* what the last StreamObjectWriter call returned
    client,       \* the connecting side of the handshake (Session::connect_role)
    server,       \* the accepting side of the handshake (Session::accept_role)
    c2s,          \* the SETUP the client put on the control stream
    s2c,          \* the SETUP the server put on the control stream
    session,      \* session.rs Session::run: the handles it holds, its tasks, its result
    inbound,      \* session/subscriber.rs Subscriber::run: its result, what it logged
    relay,        \* moq-relay connection.rs: serve_publisher, its tasks, its result
    contribute,   \* moq-warp relay/contribute.rs Publishers: next, the ids of tracks
    groupStream,  \* session/subscriber.rs Subscriber::run_group on one inbound stream
    announces,    \* session/publisher.rs Publisher.announces: namespace -> Announce (0: none)
    announced,    \* the Announce handles made so far: held or dropped, namespace, closed, queue
    subscribed,   \* session/publisher.rs Publisher.subscribed: the ids in the map
    unknown,      \* session/publisher.rs Publisher.unknown: the queue of unmatched subscribes
    outgoing,     \* session/publisher.rs Publisher.outgoing: the control messages queued
    pubCalled,    \* what the last Publisher call or handler returned
    serving,      \* session/subscribed.rs Subscribed: its State, what it served and sent
    subscribes,   \* session/subscriber.rs Subscriber.subscribes: id -> the receiving half
    tracks,       \* the serve/track.rs State of the track each subscription writes to
    recvCalled,   \* what the last handler of the subscriber returned
    lookup,       \* moq-relay remote.rs RemotesState.lookup: url -> remote (0: none)
    requested,    \* moq-relay remote.rs RemotesState.requested: the RemoteProducers queued
    remotes,      \* the remotes made so far: url, what became of the RemoteProducer, readers
    callers,      \* the callers of RemotesConsumer::route and what they hold
    remoteTracks,     \* moq-relay remote.rs RemoteState.tracks: key -> weak reader (0: none)
    remoteRequested,  \* moq-relay remote.rs RemoteState.requested: the TrackWriters queued
    remoteReaders,    \* the RemoteTrackDrop of each reader made: key, strong count, dropped
    broadcast,    \* model/broadcast.rs State: tracks, requested, closed (and the tracks made)
    handles,      \* model/broadcast.rs: the live clones of the Publisher and of the Subscriber
    bcCalled,     \* what the last call on the broadcast returned
    bcHistory,    \* the tracks requested and the tracks next_track handed out, in order
    codec,        \* coding/varint.rs: one VarInt, its encoding and what is decoded from it
    groupState,   \* serve/stream.rs: the StreamGroupState of one group, inside its util::State
    groupWriter,  \* the StreamGroupWriter of the group
    groupCalled,  \* what the last call on the StreamGroupWriter returned
    groupReader,  \* the StreamGroupReader of the group
    cell,         \* serve/object.rs: an ObjectState inside its util::State, with the version
    watchers,     \* the ObjectReaders of it: where each is in read()
    ctl,          \* session/control.rs: the two mutexes of Control and the streams behind them
    ctlTasks,     \* the tasks that call Control::send and Control::recv
    issue,        \* the subscriptions a subscriber issues: its map, its queue, what the peer got
    claimed,      \* publisher/announce.rs: the AnnounceState of each namespace and its clones
    accepting,    \* whether the publisher session still accepts messages to send
    claimedCalled, \* what the last call on an Announce or AnnounceWeak returned
    stream,       \* moq-transfork coding/reader.rs: the Reader's buffer and the stream behind it
    readerCalled  \* what the last call on the Reader returned

trackVars == <<state, publisher, subscribers, called, latest>>

objectVars == <<objInfo, objState, objPublisher, objSubscribers, objCalled>>

streamVars == <<streamObject, streamState, streamWriter, streamReaders, streamCalled>>

sessionVars == <<client, server, c2s, s2c>>

runVars == <<session, inbound, relay, contribute, groupStream>>

publisherVars == <<announces, announced, subscribed, unknown, outgoing, pubCalled>>

subscribedVars == <<serving>>

subscribeVars == <<subscribes, tracks, recvCalled>>

remotesVars == <<lookup, requested, remotes, callers>>

remoteVars == <<remoteTracks, remoteRequested, remoteReaders>>

broadcastVars == <<broadcast, handles, bcCalled, bcHistory>>

codecVars == <<codec>>

groupVars == <<groupState, groupWriter, groupCalled, groupReader>>

watchVars == <<cell, watchers>>

ctlVars == <<ctl, ctlTasks>>

issueVars == <<issue>>

claimedVars == <<claimed, accepting, claimedCalled>>

readerVars == <<stream, readerCalled>>

vars == <<trackVars, objectVars, streamVars, sessionVars, runVars, publisherVars,
         subscribedVars, subscribeVars, remotesVars, remoteVars,
                broadcastVars, codecVars, groupVars, watchVars, ctlVars, issueVars, claimedVars, readerVars>>

\* What a step of one component leaves alone.
TrackOnly ==
    UNCHANGED <<objectVars, streamVars, sessionVars, runVars, publisherVars, subscribedVars,
                subscribeVars, remotesVars, remoteVars,
                broadcastVars, codecVars, groupVars, watchVars, ctlVars, issueVars, claimedVars, readerVars>>

ObjectOnly ==
    UNCHANGED <<trackVars, streamVars, sessionVars, runVars, publisherVars, subscribedVars,
                subscribeVars, remotesVars, remoteVars,
                broadcastVars, codecVars, groupVars, watchVars, ctlVars, issueVars, claimedVars, readerVars>>

StreamOnly ==
    UNCHANGED <<trackVars, objectVars, sessionVars, runVars, publisherVars, subscribedVars,
                subscribeVars, remotesVars, remoteVars,
                broadcastVars, codecVars, groupVars, watchVars, ctlVars, issueVars, claimedVars, readerVars>>

SessionOnly ==
    UNCHANGED <<trackVars, objectVars, streamVars, runVars, publisherVars, subscribedVars,
                subscribeVars, remotesVars, remoteVars,
                broadcastVars, codecVars, groupVars, watchVars, ctlVars, issueVars, claimedVars, readerVars>>

RunOnly ==
    UNCHANGED <<trackVars, objectVars, streamVars, sessionVars, publisherVars, subscribedVars,
                subscribeVars, remotesVars, remoteVars,
                broadcastVars, codecVars, groupVars, watchVars, ctlVars, issueVars, claimedVars, readerVars>>

PublisherOnly ==
    UNCHANGED <<trackVars, objectVars, streamVars, sessionVars, runVars, subscribedVars,
                subscribeVars, remotesVars, remoteVars,
                broadcastVars, codecVars, groupVars, watchVars, ctlVars, issueVars, claimedVars, readerVars>>

SubscribedOnly ==
    UNCHANGED <<trackVars, objectVars, streamVars, sessionVars, runVars, publisherVars,
                subscribeVars, remotesVars, remoteVars,
                broadcastVars, codecVars, groupVars, watchVars, ctlVars, issueVars, claimedVars, readerVars>>

SubscribeOnly ==
    UNCHANGED <<trackVars, objectVars, streamVars, sessionVars, runVars, publisherVars,
                subscribedVars, remotesVars, remoteVars, broadcastVars, codecVars, groupVars, watchVars, ctlVars, issueVars, claimedVars, readerVars>>

RemotesOnly ==
    UNCHANGED <<trackVars, objectVars, streamVars, sessionVars, runVars, publisherVars,
                subscribedVars, subscribeVars, remoteVars, broadcastVars, codecVars, groupVars, watchVars, ctlVars, issueVars, claimedVars, readerVars>>

RemoteOnly ==
    UNCHANGED <<trackVars, objectVars, streamVars, sessionVars, runVars, publisherVars,
                subscribedVars, subscribeVars, remotesVars, broadcastVars, codecVars, groupVars, watchVars, ctlVars, issueVars, claimedVars, readerVars>>

BroadcastOnly ==
    UNCHANGED <<trackVars, objectVars, streamVars, sessionVars, runVars, publisherVars,
                subscribedVars, subscribeVars, remotesVars, remoteVars, codecVars, groupVars, watchVars, ctlVars, issueVars, claimedVars, readerVars>>

CodecOnly ==
    UNCHANGED <<trackVars, objectVars, streamVars, sessionVars, runVars, publisherVars,
                subscribedVars, subscribeVars, remotesVars, remoteVars, broadcastVars,
                groupVars, watchVars, ctlVars, issueVars, claimedVars, readerVars>>

GroupOnly ==
    UNCHANGED <<trackVars, objectVars, streamVars, sessionVars, runVars, publisherVars,
                subscribedVars, subscribeVars, remotesVars, remoteVars, broadcastVars,
                codecVars, watchVars, ctlVars, issueVars, claimedVars, readerVars>>

WatchOnly ==
    UNCHANGED <<trackVars, objectVars, streamVars, sessionVars, runVars, publisherVars,
                subscribedVars, subscribeVars, remotesVars, remoteVars, broadcastVars,
                codecVars, groupVars, ctlVars, issueVars, claimedVars, readerVars>>

ControlOnly ==
    UNCHANGED <<trackVars, objectVars, streamVars, sessionVars, runVars, publisherVars,
                subscribedVars, subscribeVars, remotesVars, remoteVars, broadcastVars,
                codecVars, groupVars, watchVars, issueVars, claimedVars, readerVars>>

IssueOnly ==
    UNCHANGED <<trackVars, objectVars, streamVars, sessionVars, runVars, publisherVars,
                subscribedVars, subscribeVars, remotesVars, remoteVars, broadcastVars,
                codecVars, groupVars, watchVars, ctlVars, claimedVars, readerVars>>

ClaimedOnly ==
    UNCHANGED <<trackVars, objectVars, streamVars, sessionVars, runVars, publisherVars,
                subscribedVars, subscribeVars, remotesVars, remoteVars, broadcastVars,
                codecVars, groupVars, watchVars, ctlVars, issueVars, readerVars>>

ReaderOnly ==
    UNCHANGED <<trackVars, objectVars, streamVars, sessionVars, runVars, publisherVars,
                subscribedVars, subscribeVars, remotesVars, remoteVars, broadcastVars,
                codecVars, groupVars, watchVars, ctlVars, issueVars, claimedVars>>

\* ------------------------------------------------------------------------
\* serve/track.rs: State
\* ------------------------------------------------------------------------

\* One cached entry.  seq is the epoch the entry was inserted at: it stands
\* for the identity of the shared handle the cache holds.
Item(group_id, object_id, send_order, seq) ==
    [group_id |-> group_id, object_id |-> object_id, send_order |-> send_order, seq |-> seq]

Cache(kind, items) == [kind |-> kind, items |-> items]

StateDefault == [cache |-> Cache("Init", <<>>), epoch |-> 0, closed |-> "Ok"]

Result(s, res) == [state |-> s, res |-> res]

\* Mutant of track_close: a later close overwrites the first error.
track_close_Overwrites(s, err) == Result([s EXCEPT !.closed = err], "Ok")

track_close(s, err) ==
    IF s.closed # "Ok" THEN Result(s, s.closed)
    ELSE Result([s EXCEPT !.closed = err], "Ok")

\* Mutant of insert_group: an older group replaces the cached one.
insert_group_KeepsOlder(s, id) ==
    IF s.closed # "Ok" THEN Result(s, s.closed)
    ELSE IF s.cache.kind = "Group" /\ s.cache.items[1].group_id = id
        THEN Result(s, "Duplicate")
    ELSE IF s.cache.kind \notin {"Init", "Group"}
        THEN Result(s, "Mode")
    ELSE Result([s EXCEPT !.cache = Cache("Group", <<Item(id, 0, 0, s.epoch + 1)>>),
                          !.epoch = s.epoch + 1], "Ok")

\* Mutant of insert_group: the cached id is not checked for a duplicate.
insert_group_NoDuplicate(s, id) ==
    IF s.closed # "Ok" THEN Result(s, s.closed)
    ELSE IF s.cache.kind = "Group" /\ s.cache.items[1].group_id > id
        THEN Result(s, "Ok")
    ELSE IF s.cache.kind \notin {"Init", "Group"}
        THEN Result(s, "Mode")
    ELSE Result([s EXCEPT !.cache = Cache("Group", <<Item(id, 0, 0, s.epoch + 1)>>),
                          !.epoch = s.epoch + 1], "Ok")

insert_group(s, id) ==
    IF s.closed # "Ok" THEN Result(s, s.closed)
    ELSE IF s.cache.kind = "Group" /\ s.cache.items[1].group_id = id
        THEN Result(s, "Duplicate")
    ELSE IF s.cache.kind = "Group" /\ s.cache.items[1].group_id > id
        THEN Result(s, "Ok")
    ELSE IF s.cache.kind \notin {"Init", "Group"}
        THEN Result(s, "Mode")
    ELSE Result([s EXCEPT !.cache = Cache("Group", <<Item(id, 0, 0, s.epoch + 1)>>),
                          !.epoch = s.epoch + 1], "Ok")

insert_object(s, group_id, object_id) ==
    IF s.closed # "Ok" THEN Result(s, s.closed)
    ELSE IF s.cache.kind = "Init"
        THEN Result([s EXCEPT !.cache = Cache("Object", <<Item(group_id, object_id, 0, s.epoch + 1)>>),
                              !.epoch = s.epoch + 1], "Ok")
    ELSE IF s.cache.kind = "Object"
        THEN LET first == s.cache.items[1]
                 kept == IF first.group_id < group_id THEN <<>> ELSE s.cache.items
             IN  IF first.group_id > group_id
                 THEN Result(s, "Ok")
                 ELSE Result([s EXCEPT !.cache = Cache("Object",
                                           Append(kept, Item(group_id, object_id, 0, s.epoch + 1))),
                                       !.epoch = s.epoch + 1], "Ok")
    ELSE Result(s, "Mode")

insert_datagram(s, group_id, object_id) ==
    IF s.closed # "Ok" THEN Result(s, s.closed)
    ELSE IF s.cache.kind \notin {"Init", "Datagram"}
        THEN Result(s, "Mode")
    ELSE Result([s EXCEPT !.cache = Cache("Datagram", <<Item(group_id, object_id, 0, s.epoch + 1)>>),
                          !.epoch = s.epoch + 1], "Ok")

\* Mutant of set_stream: the mode is not checked.
set_stream_NoModeCheck(s, send_order) ==
    IF s.closed # "Ok" THEN Result(s, s.closed)
    ELSE Result([s EXCEPT !.cache = Cache("Stream", <<Item(0, 0, send_order, s.epoch + 1)>>),
                          !.epoch = s.epoch + 1], "Ok")

\* Mutant of set_stream: epoch is raised before the mode is checked.
set_stream_BumpsEpochFirst(s, send_order) ==
    IF s.closed # "Ok" THEN Result(s, s.closed)
    ELSE IF s.cache.kind # "Init"
        THEN Result([s EXCEPT !.epoch = s.epoch + 1], "Mode")
    ELSE Result([s EXCEPT !.cache = Cache("Stream", <<Item(0, 0, send_order, s.epoch + 1)>>),
                          !.epoch = s.epoch + 1], "Ok")

set_stream(s, send_order) ==
    IF s.closed # "Ok" THEN Result(s, s.closed)
    ELSE IF s.cache.kind # "Init"
        THEN Result(s, "Mode")
    ELSE Result([s EXCEPT !.cache = Cache("Stream", <<Item(0, 0, send_order, s.epoch + 1)>>),
                          !.epoch = s.epoch + 1], "Ok")

\* ------------------------------------------------------------------------
\* serve/track.rs: TrackSubscriber
\* ------------------------------------------------------------------------

NoItem == Item(0, 0, 0, 0)

\* A handle that does not exist (never cloned, or dropped).
NoSubscriber == [alive |-> FALSE, epoch |-> 0, count |-> 0, item |-> NoItem]

\* TrackSubscriber::new.  count and item record what next() has returned to
\* the holder of the handle: how many events, and the last of them.
NewSubscriber == [alive |-> TRUE, epoch |-> 0, count |-> 0, item |-> NoItem]

\* Mutant of track_next: the Object arm moves the cursor to the state's epoch,
\* as the other arms do.
track_next_ObjectJumps(s, epoch) ==
    IF epoch # s.epoch /\ s.cache.kind # "Init"
    THEN IF s.cache.kind = "Object"
         THEN LET len == Len(s.cache.items)
                  behind == s.epoch - epoch
                  index == IF len > behind THEN len - behind ELSE 0
              IN  [ret |-> "Some", item |-> s.cache.items[index + 1], epoch |-> s.epoch]
         ELSE [ret |-> "Some", item |-> s.cache.items[1], epoch |-> s.epoch]
    ELSE IF s.closed = "Ok" THEN [ret |-> "Pending", item |-> NoItem, epoch |-> epoch]
    ELSE IF s.closed = "Done" THEN [ret |-> "None", item |-> NoItem, epoch |-> epoch]
    ELSE [ret |-> s.closed, item |-> NoItem, epoch |-> epoch]

\* Mutant of track_next: the Object arm replays the vector from its start.
track_next_ObjectFromStart(s, epoch) ==
    IF epoch # s.epoch /\ s.cache.kind # "Init"
    THEN IF s.cache.kind = "Object"
         THEN LET len == Len(s.cache.items)
              IN  [ret |-> "Some", item |-> s.cache.items[1], epoch |-> s.epoch - len + 1]
         ELSE [ret |-> "Some", item |-> s.cache.items[1], epoch |-> s.epoch]
    ELSE IF s.closed = "Ok" THEN [ret |-> "Pending", item |-> NoItem, epoch |-> epoch]
    ELSE IF s.closed = "Done" THEN [ret |-> "None", item |-> NoItem, epoch |-> epoch]
    ELSE [ret |-> s.closed, item |-> NoItem, epoch |-> epoch]

\* What one pass of the loop of TrackSubscriber::next does under the read
\* lock: ret is "Some" (an event), "None" (Ok(None)), an error name, or
\* "Pending" when it goes on to await the notification; epoch is the cursor
\* it leaves in the handle.
track_next(s, epoch) ==
    IF epoch # s.epoch /\ s.cache.kind # "Init"
    THEN IF s.cache.kind = "Object"
         THEN LET len == Len(s.cache.items)
                  behind == s.epoch - epoch
                  index == IF len > behind THEN len - behind ELSE 0
              IN  [ret |-> "Some", item |-> s.cache.items[index + 1],
                   epoch |-> s.epoch - len + index + 1]
         ELSE [ret |-> "Some", item |-> s.cache.items[1], epoch |-> s.epoch]
    ELSE IF s.closed = "Ok" THEN [ret |-> "Pending", item |-> NoItem, epoch |-> epoch]
    ELSE IF s.closed = "Done" THEN [ret |-> "None", item |-> NoItem, epoch |-> epoch]
    ELSE [ret |-> s.closed, item |-> NoItem, epoch |-> epoch]

Alive == {r \in Readers : subscribers[r].alive}

\* ------------------------------------------------------------------------
\* Actions on a track
\* ------------------------------------------------------------------------

\* The frame of a TrackPublisher call: it needs the handle, replaces the
\* state by what the State method left and returns the method's result.
Call(r) ==
    /\ publisher = "alive"
    /\ state' = r.state
    /\ called' = r.res
    /\ UNCHANGED <<publisher, subscribers>>
    /\ TrackOnly

create_group(id) ==
    /\ state.epoch < MaxEpoch
    /\ Call(insert_group(state, id))
    /\ latest' = IF insert_group(state, id).res \in {"Ok", "Duplicate"} /\ id > latest
                 THEN id ELSE latest

write_object(group_id, object_id) ==
    /\ state.epoch < MaxEpoch
    /\ Call(insert_object(state, group_id, object_id))
    /\ UNCHANGED latest

create_object(group_id, object_id) ==
    /\ state.epoch < MaxEpoch
    /\ Call(insert_object(state, group_id, object_id))
    /\ UNCHANGED latest

create_stream(send_order) ==
    /\ state.epoch < MaxEpoch
    /\ Call(set_stream(state, send_order))
    /\ UNCHANGED latest

write_datagram(group_id, object_id) ==
    /\ state.epoch < MaxEpoch
    /\ Call(insert_datagram(state, group_id, object_id))
    /\ UNCHANGED latest

close(err) ==
    /\ Call(track_close(state, err))
    /\ UNCHANGED latest

\* TrackPublisher has no Drop impl and holds no drop guard: dropping it
\* releases the handle and leaves State as it is.
drop_publisher ==
    /\ publisher = "alive"
    /\ publisher' = "dropped"
    /\ UNCHANGED <<state, subscribers, called, latest>>
    /\ TrackOnly

next(r) ==
    /\ subscribers[r].alive
    /\ LET n == track_next(state, subscribers[r].epoch)
       IN  /\ n.ret # "Pending"
           /\ subscribers' = [subscribers EXCEPT ![r] =
                  [@ EXCEPT !.epoch = n.epoch,
                            !.count = IF n.ret = "Some" THEN @ + 1 ELSE @,
                            !.item = IF n.ret = "Some" THEN n.item ELSE @]]
    /\ UNCHANGED <<state, publisher, called, latest>>
    /\ TrackOnly

\* #[derive(Clone)]: the clone shares state and the Arc<Dropped>, and copies
\* the cursor.  It takes the lowest free handle slot, and starts from what
\* the handle it was cloned from has returned so far.
clone(r) ==
    /\ subscribers[r].alive
    /\ Alive # Readers
    /\ LET c == CHOOSE x \in Readers \ Alive : \A y \in Readers \ Alive : x <= y
       IN  subscribers' = [subscribers EXCEPT ![c] = subscribers[r]]
    /\ UNCHANGED <<state, publisher, called, latest>>
    /\ TrackOnly

\* Mutant of drop_subscriber: every handle owns a Dropped of its own, so that
\* the drop of any handle closes the state.
drop_subscriber_EveryClone(r) ==
    /\ subscribers[r].alive
    /\ subscribers' = [subscribers EXCEPT ![r] = NoSubscriber]
    /\ state' = track_close(state, "Done").state
    /\ UNCHANGED <<publisher, called, latest>>
    /\ TrackOnly

\* Dropping a handle drops one reference to the shared Dropped; the last one
\* runs Dropped::drop, which closes the state with Done and ignores the result.
drop_subscriber(r) ==
    /\ subscribers[r].alive
    /\ subscribers' = [subscribers EXCEPT ![r] = NoSubscriber]
    /\ state' = IF Alive = {r} THEN track_close(state, "Done").state ELSE state
    /\ UNCHANGED <<publisher, called, latest>>
    /\ TrackOnly

TrackInit ==
    /\ state = StateDefault
    /\ publisher = "alive"
    /\ subscribers = [r \in Readers |-> IF r = 1 THEN NewSubscriber ELSE NoSubscriber]
    /\ called = "Ok"
    /\ latest = 0

TrackNext ==
    \/ \E id \in GroupIds : create_group(id)
    \/ \E g \in GroupIds, o \in ObjectIds : write_object(g, o)
    \/ \E g \in GroupIds, o \in ObjectIds : create_object(g, o)
    \/ \E so \in SendOrders : create_stream(so)
    \/ \E g \in GroupIds, o \in ObjectIds : write_datagram(g, o)
    \/ \E err \in CloseErrors : close(err)
    \/ drop_publisher
    \/ \E r \in Readers : next(r)
    \/ \E r \in Readers : clone(r)
    \/ \E r \in Readers : drop_subscriber(r)

\* ------------------------------------------------------------------------
\* cache/object.rs: State, Publisher, Subscriber, Dropped
\* ------------------------------------------------------------------------

\* Cap on the declared size of an object and on the length of one chunk.
MaxSize == 2

\* Cap on State.chunks: no chunk is written to an object that holds as many.
MaxChunks == 2

Sizes == 0..MaxSize

\* The CacheError values handed to Publisher::close.
ObjectCloseErrors == {"Done", "Closed"}

ObjectStateDefault == [chunks |-> <<>>, closed |-> "Ok"]

object_close(s, err) ==
    IF s.closed # "Ok" THEN Result(s, s.closed)
    ELSE Result([s EXCEPT !.closed = err], "Ok")

\* Dropped::drop: close with Done, the result ignored.
Dropped_drop(s) == object_close(s, "Done").state

\* Publisher::chunk with a chunk of len bytes: remain is reduced before the
\* state is locked and its closed checked.
Publisher_chunk(remain, s, len) ==
    IF len > remain THEN [remain |-> remain, state |-> s, res |-> "WrongSize"]
    ELSE IF s.closed # "Ok" THEN [remain |-> remain - len, state |-> s, res |-> s.closed]
    ELSE [remain |-> remain - len, state |-> [s EXCEPT !.chunks = Append(@, len)], res |-> "Ok"]

\* Publisher::close(self, err): the explicit close, then self goes out of
\* scope and its Arc<Dropped>, the only reference, runs Dropped::drop.
Publisher_close(remain, s, err) ==
    LET e == IF err = "Done" /\ remain # 0 THEN "WrongSize" ELSE err
        r == object_close(s, e)
    IN  Result(Dropped_drop(r.state), r.res)

\* Dropping the Publisher without close: only the Arc<Dropped> acts.
Publisher_drop(remain, s) == Dropped_drop(s)

\* One pass of the loop of Subscriber::chunk under the read lock: what is
\* returned (Pending when the pass ends in notify.await), the chunk of a
\* Some, and the index after.
Subscriber_chunk(s, index) ==
    IF index < Len(s.chunks) THEN [ret |-> "Some", chunk |-> s.chunks[index + 1],
                                   index |-> index + 1]
    ELSE IF s.closed = "Done" THEN [ret |-> "None", chunk |-> 0, index |-> index]
    ELSE IF s.closed # "Ok" THEN [ret |-> s.closed, chunk |-> 0, index |-> index]
    ELSE [ret |-> "Pending", chunk |-> 0, index |-> index]

\* A reader handle: its index, and for the record the index it was made
\* with, the chunks it has returned since and what it returned last.
NewReader(index) == [alive |-> TRUE, index |-> index, start |-> index, got |-> <<>>, last |-> ""]

NoReaderHandle == [alive |-> FALSE, index |-> 0, start |-> 0, got |-> <<>>, last |-> ""]

\* The handle after a pass that returned n.
Returns(rd, n) ==
    [rd EXCEPT !.index = n.index, !.last = n.ret,
               !.got = IF n.ret = "Some" THEN Append(@, n.chunk) ELSE @]

RECURSIVE Sum(_)
Sum(q) == IF q = <<>> THEN 0 ELSE Head(q) + Sum(Tail(q))

ObjectAlive == {r \in Readers : objSubscribers[r].alive}

\* cache::object::new(info).  One object is followed at a time: this one or
\* the StreamObject below.
object_new(size) ==
    /\ objPublisher.status = "none"
    /\ streamWriter.status = "none"
    /\ objInfo' = [size |-> size]
    /\ objState' = ObjectStateDefault
    /\ objPublisher' = [status |-> "alive", remain |-> size]
    /\ objSubscribers' = [r \in Readers |-> IF r = 1 THEN NewReader(0) ELSE NoReaderHandle]
    /\ UNCHANGED objCalled
    /\ ObjectOnly

object_chunk(len) ==
    /\ objPublisher.status = "alive"
    /\ Len(objState.chunks) < MaxChunks
    /\ LET r == Publisher_chunk(objPublisher.remain, objState, len)
       IN  /\ objPublisher' = [objPublisher EXCEPT !.remain = r.remain]
           /\ objState' = r.state
           /\ objCalled' = r.res
    /\ UNCHANGED <<objInfo, objSubscribers>>
    /\ ObjectOnly

object_publisher_close(err) ==
    /\ objPublisher.status = "alive"
    /\ LET r == Publisher_close(objPublisher.remain, objState, err)
       IN  /\ objState' = r.state
           /\ objCalled' = r.res
    /\ objPublisher' = [objPublisher EXCEPT !.status = "closed"]
    /\ UNCHANGED <<objInfo, objSubscribers>>
    /\ ObjectOnly

object_publisher_drop ==
    /\ objPublisher.status = "alive"
    /\ objState' = Publisher_drop(objPublisher.remain, objState)
    /\ objPublisher' = [objPublisher EXCEPT !.status = "dropped"]
    /\ UNCHANGED <<objInfo, objSubscribers, objCalled>>
    /\ ObjectOnly

object_subscriber_chunk(r) ==
    /\ objSubscribers[r].alive
    /\ LET n == Subscriber_chunk(objState, objSubscribers[r].index)
       IN  /\ n.ret # "Pending"
           /\ objSubscribers' = [objSubscribers EXCEPT ![r] = Returns(@, n)]
    /\ UNCHANGED <<objInfo, objState, objPublisher, objCalled>>
    /\ ObjectOnly

object_subscriber_clone(r) ==
    /\ objSubscribers[r].alive
    /\ ObjectAlive # Readers
    /\ LET c == CHOOSE x \in Readers \ ObjectAlive : \A y \in Readers \ ObjectAlive : x <= y
       IN  objSubscribers' = [objSubscribers EXCEPT ![c] = NewReader(objSubscribers[r].index)]
    /\ UNCHANGED <<objInfo, objState, objPublisher, objCalled>>
    /\ ObjectOnly

object_subscriber_drop(r) ==
    /\ objSubscribers[r].alive
    /\ objSubscribers' = [objSubscribers EXCEPT ![r] = NoReaderHandle]
    /\ objState' = IF ObjectAlive = {r} THEN Dropped_drop(objState) ELSE objState
    /\ UNCHANGED <<objInfo, objPublisher, objCalled>>
    /\ ObjectOnly

ObjectInit ==
    /\ objInfo = [size |-> 0]
    /\ objState = ObjectStateDefault
    /\ objPublisher = [status |-> "none", remain |-> 0]
    /\ objSubscribers = [r \in Readers |-> NoReaderHandle]
    /\ objCalled = "Ok"

ObjectNext ==
    \/ \E size \in Sizes : object_new(size)
    \/ \E len \in Sizes : object_chunk(len)
    \/ \E err \in ObjectCloseErrors : object_publisher_close(err)
    \/ object_publisher_drop
    \/ \E r \in Readers : object_subscriber_chunk(r)
    \/ \E r \in Readers : object_subscriber_clone(r)
    \/ \E r \in Readers : object_subscriber_drop(r)

\* ------------------------------------------------------------------------
\* serve/stream.rs: StreamObject, StreamObjectWriter, StreamObjectReader
\* ------------------------------------------------------------------------

\* The ServeError values handed to StreamObjectWriter::close.
StreamCloseErrors == {"Done", "Closed"}

\* StreamObjectState::default() inside a util::State.  The source of
\* util::State is not in the tree; it is modelled after the watched state of
\* the specification: the cell is terminated once the handles of one side are
\* all dropped, lock_mut() and into_mut() yield None on a terminated cell and
\* modified() yields None, so a waiting reader is woken and told so.
StreamObjectStateDefault == [chunks |-> <<>>, closed |-> "Ok", terminated |-> FALSE]

\* StreamObjectWriter::write with a chunk of len bytes.
StreamObjectWriter_write(remain, s, len) ==
    IF len > remain THEN [remain |-> remain, state |-> s, res |-> "Size"]
    ELSE IF s.terminated THEN [remain |-> remain - len, state |-> s, res |-> "Done"]
    ELSE [remain |-> remain - len, state |-> [s EXCEPT !.chunks = Append(@, len)], res |-> "Ok"]

\* impl Drop for StreamObjectWriter, then the drop of its util::State half.
StreamObjectWriter_drop(remain, s) ==
    LET t == IF remain = 0 \/ s.closed # "Ok" \/ s.terminated THEN s
             ELSE [s EXCEPT !.closed = "Size"]
    IN  [t EXCEPT !.terminated = TRUE]

\* StreamObjectWriter::close(self, err); self is dropped when it returns.
StreamObjectWriter_close(remain, s, err) ==
    IF s.terminated THEN Result(StreamObjectWriter_drop(remain, s), "Done")
    ELSE Result(StreamObjectWriter_drop(remain, [s EXCEPT !.closed = err]), "Ok")

\* Mutant of StreamObjectReader_read: closed is looked at before the chunks.
StreamObjectReader_read_ClosedFirst(s, index) ==
    IF s.closed # "Ok" THEN [ret |-> s.closed, chunk |-> 0, index |-> index]
    ELSE IF index < Len(s.chunks) THEN [ret |-> "Some", chunk |-> s.chunks[index + 1],
                                        index |-> index + 1]
    ELSE IF s.terminated THEN [ret |-> "None", chunk |-> 0, index |-> index]
    ELSE [ret |-> "Pending", chunk |-> 0, index |-> index]

\* One pass of the loop of StreamObjectReader::read under the read lock;
\* ObjectReader::read of serve/object.rs is the same code.
StreamObjectReader_read(s, index) ==
    IF index < Len(s.chunks) THEN [ret |-> "Some", chunk |-> s.chunks[index + 1],
                                   index |-> index + 1]
    ELSE IF s.closed # "Ok" THEN [ret |-> s.closed, chunk |-> 0, index |-> index]
    ELSE IF s.terminated THEN [ret |-> "None", chunk |-> 0, index |-> index]
    ELSE [ret |-> "Pending", chunk |-> 0, index |-> index]

StreamAlive == {r \in Readers : streamReaders[r].alive}

\* StreamObject { size, .. }.produce().  One object is followed at a time:
\* this one or the cache object above.
stream_object_produce(size) ==
    /\ streamWriter.status = "none"
    /\ objPublisher.status = "none"
    /\ streamObject' = [size |-> size]
    /\ streamState' = StreamObjectStateDefault
    /\ streamWriter' = [status |-> "alive", remain |-> size]
    /\ streamReaders' = [r \in Readers |-> IF r = 1 THEN NewReader(0) ELSE NoReaderHandle]
    /\ UNCHANGED streamCalled
    /\ StreamOnly

stream_object_write(len) ==
    /\ streamWriter.status = "alive"
    /\ Len(streamState.chunks) < MaxChunks
    /\ LET r == StreamObjectWriter_write(streamWriter.remain, streamState, len)
       IN  /\ streamWriter' = [streamWriter EXCEPT !.remain = r.remain]
           /\ streamState' = r.state
           /\ streamCalled' = r.res
    /\ UNCHANGED <<streamObject, streamReaders>>
    /\ StreamOnly

stream_object_close(err) ==
    /\ streamWriter.status = "alive"
    /\ LET r == StreamObjectWriter_close(streamWriter.remain, streamState, err)
       IN  /\ streamState' = r.state
           /\ streamCalled' = r.res
    /\ streamWriter' = [streamWriter EXCEPT !.status = "closed"]
    /\ UNCHANGED <<streamObject, streamReaders>>
    /\ StreamOnly

stream_object_drop ==
    /\ streamWriter.status = "alive"
    /\ streamState' = StreamObjectWriter_drop(streamWriter.remain, streamState)
    /\ streamWriter' = [streamWriter EXCEPT !.status = "dropped"]
    /\ UNCHANGED <<streamObject, streamReaders, streamCalled>>
    /\ StreamOnly

stream_object_read(r) ==
    /\ streamReaders[r].alive
    /\ LET n == StreamObjectReader_read(streamState, streamReaders[r].index)
       IN  /\ n.ret # "Pending"
           /\ streamReaders' = [streamReaders EXCEPT ![r] = Returns(@, n)]
    /\ UNCHANGED <<streamObject, streamState, streamWriter, streamCalled>>
    /\ StreamOnly

stream_object_clone(r) ==
    /\ streamReaders[r].alive
    /\ StreamAlive # Readers
    /\ LET c == CHOOSE x \in Readers \ StreamAlive : \A y \in Readers \ StreamAlive : x <= y
       IN  streamReaders' = [streamReaders EXCEPT ![c] = NewReader(streamReaders[r].index)]
    /\ UNCHANGED <<streamObject, streamState, streamWriter, streamCalled>>
    /\ StreamOnly

\* The drop of a StreamObjectReader: the last one takes the reader half of
\* the util::State with it.
stream_object_reader_drop(r) ==
    /\ streamReaders[r].alive
    /\ streamReaders' = [streamReaders EXCEPT ![r] = NoReaderHandle]
    /\ streamState' = IF StreamAlive = {r} THEN [streamState EXCEPT !.terminated = TRUE]
                      ELSE streamState
    /\ UNCHANGED <<streamObject, streamWriter, streamCalled>>
    /\ StreamOnly

StreamObjectInit ==
    /\ streamObject = [size |-> 0]
    /\ streamState = StreamObjectStateDefault
    /\ streamWriter = [status |-> "none", remain |-> 0]
    /\ streamReaders = [r \in Readers |-> NoReaderHandle]
    /\ streamCalled = "Ok"

StreamObjectNext ==
    \/ \E size \in Sizes : stream_object_produce(size)
    \/ \E len \in Sizes : stream_object_write(len)
    \/ \E err \in StreamCloseErrors : stream_object_close(err)
    \/ stream_object_drop
    \/ \E r \in Readers : stream_object_read(r)
    \/ \E r \in Readers : stream_object_clone(r)
    \/ \E r \in Readers : stream_object_reader_drop(r)

\* ------------------------------------------------------------------------
\* session.rs: the SETUP handshake and the role downgrade
\* ------------------------------------------------------------------------

Roles == {"Both", "Publisher", "Subscriber"}

Versions == {"DRAFT_01", "DRAFT_02", "DRAFT_03"}

\* setup::Client::decode rejects an empty version list.
VersionLists == (SUBSET Versions) \ {{}}

NoSetup == [sent |-> FALSE, role |-> "Both", versions |-> {}]

Setup(role, versions) == [sent |-> TRUE, role |-> role, versions |-> versions]

Idle == [pc |-> "idle", role |-> "Both", result |-> "none"]

\* Mutant of connect_downgrade: the two downgrades are exchanged.
connect_downgrade_Exchanged(role, server_role) ==
    IF server_role = "Both" THEN role
    ELSE IF server_role = "Publisher"
        THEN IF role = "Publisher" THEN "RoleIncompatible" ELSE "Publisher"
    ELSE IF role = "Subscriber" THEN "RoleIncompatible" ELSE "Subscriber"

\* The match of Session::connect_role on server.role: the role the session is
\* built with, or the error returned.
connect_downgrade(role, server_role) ==
    IF server_role = "Both" THEN role
    ELSE IF server_role = "Publisher"
        THEN IF role = "Publisher" THEN "RoleIncompatible" ELSE "Subscriber"
    ELSE IF role = "Subscriber" THEN "RoleIncompatible" ELSE "Publisher"

\* Mutant of accept_downgrade: incompatible roles are refused, but the
\* configured role is kept instead of being downgraded.
accept_downgrade_KeepsRole(role, client_role) ==
    IF client_role = role /\ role # "Both" THEN "RoleIncompatible" ELSE role

\* The match of Session::accept_role on client.role.
accept_downgrade(role, client_role) ==
    IF client_role = "Both" THEN role
    ELSE IF client_role = "Publisher"
        THEN IF role = "Publisher" THEN "RoleIncompatible" ELSE "Subscriber"
    ELSE IF role = "Subscriber" THEN "RoleIncompatible" ELSE "Publisher"

\* Session::accept_role after the client SETUP was decoded.
accept_result(role, setup) ==
    IF "DRAFT_03" \notin setup.versions THEN "Version"
    ELSE accept_downgrade(role, setup.role)

\* Session::connect_role up to the encode of the client SETUP.
connect_role_send(role) ==
    /\ client.pc = "idle"
    /\ ~c2s.sent
    /\ client' = [pc |-> "sent", role |-> role, result |-> "none"]
    /\ c2s' = Setup(role, {"DRAFT_03"})
    /\ UNCHANGED <<server, s2c>>
    /\ SessionOnly

\* A peer that is not this implementation connects: any well-formed SETUP.
peer_client(role, versions) ==
    /\ client.pc = "idle"
    /\ ~c2s.sent
    /\ client' = [pc |-> "peer", role |-> role, result |-> "none"]
    /\ c2s' = Setup(role, versions)
    /\ UNCHANGED <<server, s2c>>
    /\ SessionOnly

\* Session::accept_role(session, role)
accept_role(role) ==
    /\ server.pc = "idle"
    /\ c2s.sent
    /\ LET res == accept_result(role, c2s)
       IN  /\ server' = [pc |-> IF res \in Roles THEN "ok" ELSE "err", role |-> role, result |-> res]
           /\ s2c' = IF res \in Roles THEN Setup(res, {"DRAFT_03"}) ELSE s2c
    /\ UNCHANGED <<client, c2s>>
    /\ SessionOnly

\* A peer that is not this implementation answers our client: any role.
peer_server(role) ==
    /\ server.pc = "idle"
    /\ client.pc = "sent"
    /\ server' = [pc |-> "peer", role |-> role, result |-> "none"]
    /\ s2c' = Setup(role, {"DRAFT_03"})
    /\ UNCHANGED <<client, c2s>>
    /\ SessionOnly

\* Session::connect_role from the decode of the server SETUP on.
connect_role_recv ==
    /\ client.pc = "sent"
    /\ s2c.sent
    /\ LET res == connect_downgrade(client.role, s2c.role)
       IN  client' = [client EXCEPT !.pc = IF res \in Roles THEN "ok" ELSE "err", !.result = res]
    /\ UNCHANGED <<server, c2s, s2c>>
    /\ SessionOnly

\* Session::connect_role when the accepting side returned an error: that side
\* returns before it encodes a server SETUP and drops the session it was
\* given, so the decode of the server SETUP fails on the closed stream and
\* the `?` returns that error.
connect_role_closed ==
    /\ client.pc = "sent"
    /\ server.pc = "err"
    /\ ~s2c.sent
    /\ client' = [client EXCEPT !.pc = "err", !.result = "Decode"]
    /\ UNCHANGED <<server, c2s, s2c>>
    /\ SessionOnly

\* setup::Role::is_publisher, as Session::new uses it to build the handle.
is_publisher(role) == role \in {"Publisher", "Both"}

\* setup::Role::is_subscriber
is_subscriber(role) == role \in {"Subscriber", "Both"}

\* Session::new: the handles a side holds after the handshake.
Session_new(role) == [publisher |-> is_publisher(role), subscriber |-> is_subscriber(role)]

SessionInit ==
    /\ client = Idle
    /\ server = Idle
    /\ c2s = NoSetup
    /\ s2c = NoSetup

SessionNext ==
    \/ \E role \in Roles : connect_role_send(role)
    \/ \E role \in Roles, versions \in VersionLists : peer_client(role, versions)
    \/ \E role \in Roles : accept_role(role)
    \/ \E role \in Roles : peer_server(role)
    \/ connect_role_recv
    \/ connect_role_closed

\* ------------------------------------------------------------------------
\* The running session: session.rs Session::run, session/subscriber.rs
\* Subscriber::run, moq-relay connection.rs Connection::serve_publisher
\* ------------------------------------------------------------------------

\* Cap on the control messages one loop handles and on the number of
\* unfinished tasks in one FuturesUnordered.
MaxMessages == 2

MaxTasks == 2

\* The control messages by who sends them: control::Publisher (Announce,
\* SubscribeOk, SubscribeError, SubscribeDone, ...) and control::Subscriber
\* (Subscribe, Unsubscribe, AnnounceOk, ...).
MessageClasses == {"Publisher", "Subscriber"}

\* How the task of one inbound data stream ends: recv_stream returns Ok, or
\* the error of its header decode or of the subscriber's dispatch.
StreamResults == {"Ok", "Decode", "NotFound"}

\* q without its i-th element.
Remove(q, i) == SubSeq(q, 1, i - 1) \o SubSeq(q, i + 1, Len(q))

\* No loop of this section has started.  One of them is followed at a time.
NoneRunning ==
    /\ session.run = "none" /\ inbound.run = "none" /\ relay.run = "none"
    /\ contribute.run = "none" /\ groupStream.run = "none"

\* Session::run(self): the three tasks start; the first to return ends run.
Session_run(role) ==
    /\ NoneRunning
    /\ session' = [publisher |-> Session_new(role).publisher,
                   subscriber |-> Session_new(role).subscriber,
                   run |-> "running", received |-> 0, tasks |-> <<>>]
    /\ UNCHANGED <<inbound, relay, contribute, groupStream>>
    /\ RunOnly

\* One pass of the loop of Session::run_recv on a message of class class.
\* Publisher::recv_message logs what fails and returns Ok.
run_recv(class) ==
    /\ session.run = "running"
    /\ session.received < MaxMessages
    /\ LET have == IF class = "Publisher" THEN session.subscriber ELSE session.publisher
       IN  session' = [session EXCEPT !.received = @ + 1,
                                      !.run = IF have THEN @ ELSE "RoleViolation"]
    /\ UNCHANGED <<inbound, relay, contribute, groupStream>>
    /\ RunOnly

\* Session::run_streams, the accept_uni arm: the stream becomes a
\* recv_stream task that will end with res.
run_streams_accept(res) ==
    /\ session.run = "running"
    /\ Len(session.tasks) < MaxTasks
    /\ session' = IF session.subscriber
                  THEN [session EXCEPT !.tasks = Append(@, res)]
                  ELSE [session EXCEPT !.run = "RoleViolation"]
    /\ UNCHANGED <<inbound, relay, contribute, groupStream>>
    /\ RunOnly

\* Session::run_streams, the tasks.next() arm: res.unwrap()?
run_streams_next(i) ==
    /\ session.run = "running"
    /\ i \in 1..Len(session.tasks)
    /\ session' = [session EXCEPT !.tasks = Remove(@, i),
                                  !.run = IF session.tasks[i] = "Ok" THEN @ ELSE session.tasks[i]]
    /\ UNCHANGED <<inbound, relay, contribute, groupStream>>
    /\ RunOnly

\* session/subscriber.rs Subscriber::recv_message: the messages a subscriber
\* takes from a publisher are handled (SubscribeReset, SubscribeFin and
\* SubscribeError for an id that is not subscribed give NotFound), any other
\* is a RoleViolation.
Subscriber_recv_message(class, known) ==
    IF class = "Publisher" THEN (IF known THEN "Ok" ELSE "NotFound") ELSE "RoleViolation"

\* Subscriber::run(self)
Subscriber_run ==
    /\ NoneRunning
    /\ inbound' = [run |-> "running", received |-> 0, warned |-> "none", streams |-> 0,
                   next |-> 0, subscribes |-> {}, issued |-> <<>>]
    /\ UNCHANGED <<session, relay, contribute, groupStream>>
    /\ RunOnly

\* One pass of the loop of Subscriber::run_inbound: an Err of recv_message is
\* logged and the loop goes on.
run_inbound(class, known) ==
    /\ inbound.run = "running"
    /\ inbound.received < MaxMessages
    /\ LET res == Subscriber_recv_message(class, known)
       IN  inbound' = [inbound EXCEPT !.received = @ + 1,
                                      !.warned = IF res = "Ok" THEN @ ELSE res]
    /\ UNCHANGED <<session, relay, contribute, groupStream>>
    /\ RunOnly

\* One pass of the loop of Subscriber::run_streams with the spawned
\* run_stream ending in res: an Err is logged in the spawned task.
subscriber_run_streams(res) ==
    /\ inbound.run = "running"
    /\ inbound.streams < MaxTasks
    /\ inbound' = [inbound EXCEPT !.streams = @ + 1,
                                  !.warned = IF res = "Ok" THEN @ ELSE res]
    /\ UNCHANGED <<session, relay, contribute, groupStream>>
    /\ RunOnly

\* The width of Subscriber.next, an AtomicU32, scaled down: the counter
\* wraps at 2^U32Bits as fetch_add wraps at 2^32.
U32Bits == 2

\* The width of a VarInt, 62 bits, scaled down; a u64 is two bits wider.
VarIntBits == 2

U64Bits == VarIntBits + 2

\* Cap on the subscriptions one session issues.
MaxSubscriptions == 2 ^ U32Bits + 1

\* AtomicU32::fetch_add(1): the value before, and the wrapped sum stored.
fetch_add(n) == [id |-> n, next |-> (n + 1) % (2 ^ U32Bits)]

\* One pass of the loop of Subscriber::run_source: the id is taken from
\* next and the track is put in the map under it.
run_source ==
    /\ inbound.run = "running"
    /\ Len(inbound.issued) < MaxSubscriptions
    /\ LET a == fetch_add(inbound.next)
       IN  inbound' = [inbound EXCEPT !.next = a.next,
                                      !.subscribes = @ \cup {a.id},
                                      !.issued = Append(@, a.id)]
    /\ UNCHANGED <<session, relay, contribute, groupStream>>
    /\ RunOnly

\* VarInt::try_from(u64): the value, or BoundsExceeded above VarInt::MAX.
VarInt_try_from(x) ==
    IF x < 2 ^ VarIntBits THEN [res |-> "Ok", value |-> x]
    ELSE [res |-> "BoundsExceeded", value |-> 0]

\* Publishers::new()
Publishers_new ==
    /\ NoneRunning
    /\ contribute' = [run |-> "running", next |-> 0, tracks |-> {}, issued |-> <<>>]
    /\ UNCHANGED <<session, inbound, relay, groupStream>>
    /\ RunOnly

\* Publishers::incoming: the id is next as a VarInt, or the conversion's
\* error is returned with nothing changed.
incoming ==
    /\ contribute.run = "running"
    /\ Len(contribute.issued) < MaxSubscriptions
    /\ LET id == VarInt_try_from(contribute.next)
       IN  contribute' = IF id.res # "Ok"
                         THEN [contribute EXCEPT !.run = id.res]
                         ELSE [contribute EXCEPT !.next = (@ + 1) % (2 ^ U64Bits),
                                                 !.tracks = @ \cup {id.value},
                                                 !.issued = Append(@, id.value)]
    /\ UNCHANGED <<session, inbound, relay, groupStream>>
    /\ RunOnly

\* Cap on the chunks of one group stream.
MaxGroupChunks == 3

\* The object ids a chunk of a group stream may carry.
ChunkObjectIds == {0, 1, 2}

\* The order check of Subscriber::run_group on a chunk: the error, or the id
\* expected of the chunk after it.
run_group_check(expected, object) ==
    IF object # expected THEN [res |-> "OutOfOrder", expected |-> expected]
    ELSE [res |-> "Ok", expected |-> object]

\* Subscriber::run_group up to its loop: the segment is created on the
\* subscribed track, or the stream fails for an id that is not subscribed.
run_group(known) ==
    /\ NoneRunning
    /\ groupStream' = [run |-> IF known THEN "running" ELSE "NotFound",
                       expected |-> 0, received |-> <<>>, written |-> <<>>]
    /\ UNCHANGED <<session, inbound, relay, contribute>>
    /\ RunOnly

\* One pass of the loop of Subscriber::run_group on a chunk with this
\* object id: checked, then written to the segment as a fragment.
run_group_chunk(object) ==
    /\ groupStream.run = "running"
    /\ Len(groupStream.received) < MaxGroupChunks
    /\ LET c == run_group_check(groupStream.expected, object)
       IN  groupStream' =
              IF c.res = "Ok"
              THEN [groupStream EXCEPT !.expected = c.expected,
                                       !.received = Append(@, object),
                                       !.written = Append(@, object)]
              ELSE [groupStream EXCEPT !.run = c.res, !.received = Append(@, object)]
    /\ UNCHANGED <<session, inbound, relay, contribute>>
    /\ RunOnly

\* The loop of Subscriber::run_group at the end of the stream
\* (DecodeError::Final): Ok(()).
run_group_final ==
    /\ groupStream.run = "running"
    /\ groupStream' = [groupStream EXCEPT !.run = "Ok"]
    /\ UNCHANGED <<session, inbound, relay, contribute>>
    /\ RunOnly

\* How serving one subscription ends (Subscribed::serve).
ServeResults == {"Ok", "Mode", "Closed"}

\* Connection::serve_webtransport / serve_quic: the tasks of one connection
\* start; the first that returns ends them all.
Connection_serve ==
    /\ NoneRunning
    /\ relay' = [run |-> "running", served |-> 0, tasks |-> <<>>, logged |-> "none"]
    /\ UNCHANGED <<session, inbound, contribute, groupStream>>
    /\ RunOnly

\* Connection::serve_publisher, the publisher.subscribed() arm: the origin
\* resolves the namespace and the subscription is served by a task that
\* will end with res, or origin.subscribe(..)? returns its error.
serve_publisher_subscribed(resolves, res) ==
    /\ relay.run = "running"
    /\ relay.served < MaxMessages
    /\ Len(relay.tasks) < MaxTasks
    /\ relay' = IF resolves
                THEN [relay EXCEPT !.served = @ + 1, !.tasks = Append(@, res)]
                ELSE [relay EXCEPT !.served = @ + 1, !.run = "NotFound"]
    /\ UNCHANGED <<session, inbound, contribute, groupStream>>
    /\ RunOnly

\* Connection::serve_publisher, the tasks.next() arm: an Err is logged.
serve_publisher_next(i) ==
    /\ relay.run = "running"
    /\ i \in 1..Len(relay.tasks)
    /\ relay' = [relay EXCEPT !.tasks = Remove(@, i),
                              !.logged = IF relay.tasks[i] = "Ok" THEN @ ELSE relay.tasks[i]]
    /\ UNCHANGED <<session, inbound, contribute, groupStream>>
    /\ RunOnly

RunInit ==
    /\ session = [publisher |-> FALSE, subscriber |-> FALSE, run |-> "none",
                  received |-> 0, tasks |-> <<>>]
    /\ inbound = [run |-> "none", received |-> 0, warned |-> "none", streams |-> 0,
                  next |-> 0, subscribes |-> {}, issued |-> <<>>]
    /\ contribute = [run |-> "none", next |-> 0, tracks |-> {}, issued |-> <<>>]
    /\ groupStream = [run |-> "none", expected |-> 0, received |-> <<>>, written |-> <<>>]
    /\ relay = [run |-> "none", served |-> 0, tasks |-> <<>>, logged |-> "none"]

RunNext ==
    \/ \E role \in Roles : Session_run(role)
    \/ \E class \in MessageClasses : run_recv(class)
    \/ \E res \in StreamResults : run_streams_accept(res)
    \/ \E i \in 1..MaxTasks : run_streams_next(i)
    \/ Subscriber_run
    \/ \E class \in MessageClasses, known \in BOOLEAN : run_inbound(class, known)
    \/ \E res \in StreamResults : subscriber_run_streams(res)
    \/ run_source
    \/ Publishers_new
    \/ incoming
    \/ \E known \in BOOLEAN : run_group(known)
    \/ \E object \in ChunkObjectIds : run_group_chunk(object)
    \/ run_group_final
    \/ Connection_serve
    \/ \E resolves \in BOOLEAN, res \in ServeResults : serve_publisher_subscribed(resolves, res)
    \/ \E i \in 1..MaxTasks : serve_publisher_next(i)

\* ------------------------------------------------------------------------
\* session/publisher.rs Publisher, session/announce.rs Announce
\* ------------------------------------------------------------------------

\* Cap on the Announce handles made in one session.
MaxAnnounces == 2

Namespaces == {"a", "b"}

SubscribeIds == {1, 2}

Handles == 1..MaxAnnounces

\* The errors an Announce is closed with by the peer: ServeError::Closed(code)
\* of AnnounceError, ServeError::Cancel of AnnounceCancel.
AnnounceErrors == {"Closed", "Cancel"}

NoAnnounce == [status |-> "none", namespace |-> "a", closed |-> "Ok", subscribes |-> <<>>]

NewAnnounce(namespace) ==
    [status |-> "held", namespace |-> namespace, closed |-> "Ok", subscribes |-> <<>>]

Unannounce(namespace, h) == [type |-> "Unannounce", namespace |-> namespace, by |-> h]

\* The publisher side of a session as the operators below take and return it.
PublisherState(a, h, s, u, o) ==
    [announces |-> a, announced |-> h, subscribed |-> s, unknown |-> u, outgoing |-> o]

\* Mutant of Publisher_announce: the entry of a registered namespace is
\* replaced instead of refused.
Publisher_announce_Replaces(p, namespace, h) ==
    Result([p EXCEPT !.announces[namespace] = h, !.announced[h] = NewAnnounce(namespace)], "Ok")

\* Publisher::announce(namespace), h the Announce it makes if the entry is
\* vacant.
Publisher_announce(p, namespace, h) ==
    IF p.announces[namespace] # 0 THEN Result(p, "Duplicate")
    ELSE Result([p EXCEPT !.announces[namespace] = h,
                          !.announced[h] = NewAnnounce(namespace)], "Ok")

\* Publisher::send_message of an Unannounce: drop_announce removes the
\* namespace's entry, then the message is queued.
Publisher_send_Unannounce(p, namespace, h) ==
    [p EXCEPT !.announces[namespace] = 0,
              !.outgoing = Append(@, Unannounce(namespace, h))]

\* Mutant of Announce_close: the Unannounce is sent whether or not the
\* announce was closed before.
Announce_close_AlwaysSends(p, h) ==
    LET q == [p EXCEPT !.announced[h].closed = IF @ = "Ok" THEN "Done" ELSE @]
    IN  Result(Publisher_send_Unannounce(q, p.announced[h].namespace, h), "Ok")

\* Announce::close of the handle h: returns the stored error of a closed
\* announce, else closes it with Done and sends the Unannounce.
Announce_close(p, h) ==
    IF p.announced[h].closed # "Ok" THEN Result(p, p.announced[h].closed)
    ELSE LET q == [p EXCEPT !.announced[h].closed = "Done"]
         IN  Result(Publisher_send_Unannounce(q, p.announced[h].namespace, h), "Ok")

\* AnnounceRecv::recv_error
AnnounceRecv_recv_error(p, h, err) ==
    IF p.announced[h].closed # "Ok" THEN Result(p, p.announced[h].closed)
    ELSE Result([p EXCEPT !.announced[h].closed = err], "Ok")

\* Publisher::recv_announce_error / recv_announce_cancel: the entry is
\* removed from the map, then told the error.
Publisher_recv_announce_error(p, namespace, err) ==
    LET h == p.announces[namespace]
    IN  IF h = 0 THEN Result(p, "Ok")
        ELSE AnnounceRecv_recv_error([p EXCEPT !.announces[namespace] = 0], h, err)

ThisPublisher == PublisherState(announces, announced, subscribed, unknown, outgoing)

\* The Announce handles not made yet.
FreeHandles == {h \in Handles : announced[h].status = "none"}

SetPublisher(r) ==
    /\ announces' = r.state.announces
    /\ announced' = r.state.announced
    /\ subscribed' = r.state.subscribed
    /\ unknown' = r.state.unknown
    /\ outgoing' = r.state.outgoing
    /\ pubCalled' = r.res
    /\ PublisherOnly

\* Publisher::announce(namespace)
announce(namespace) ==
    /\ FreeHandles # {}
    /\ LET h == CHOOSE x \in FreeHandles : \A y \in FreeHandles : x <= y
       IN  SetPublisher(Publisher_announce(ThisPublisher, namespace, h))

\* Publisher::recv_message on an AnnounceError or an AnnounceCancel; the
\* result is logged.
recv_announce_error(namespace, err) ==
    SetPublisher(Publisher_recv_announce_error(ThisPublisher, namespace, err))

\* impl Drop for Announce: self.close().ok()
drop_announce(h) ==
    /\ announced[h].status = "held"
    /\ LET r == Announce_close(ThisPublisher, h)
       IN  SetPublisher([r EXCEPT !.state.announced[h].status = "dropped"])

\* AnnounceRecv::recv_subscribe is not part of the tree at hand; after the
\* specification it puts the subscribe on the announce's subscribe queue.
AnnounceRecv_recv_subscribe(p, h, id) ==
    [p EXCEPT !.announced[h].subscribes = Append(@, id)]

\* Mutant of Publisher_recv_subscribe: the unmatched queue gets every
\* subscribe, matched or not.
Publisher_recv_subscribe_AlsoUnknown(p, id, namespace) ==
    IF id \in p.subscribed THEN Result(p, "Duplicate")
    ELSE LET q == [p EXCEPT !.subscribed = @ \cup {id}, !.unknown = Append(@, id)]
             h == p.announces[namespace]
         IN  IF h # 0 THEN Result(AnnounceRecv_recv_subscribe(q, h, id), "Ok")
             ELSE Result(q, "Ok")

\* Publisher::recv_subscribe on a Subscribe with this id and namespace.
Publisher_recv_subscribe(p, id, namespace) ==
    IF id \in p.subscribed THEN Result(p, "Duplicate")
    ELSE LET q == [p EXCEPT !.subscribed = @ \cup {id}]
             h == p.announces[namespace]
         IN  IF h # 0 THEN Result(AnnounceRecv_recv_subscribe(q, h, id), "Ok")
             ELSE Result([q EXCEPT !.unknown = Append(@, id)], "Ok")

\* Publisher::recv_message on a Subscribe; the result is logged.
recv_subscribe(id, namespace) ==
    SetPublisher(Publisher_recv_subscribe(ThisPublisher, id, namespace))

PublisherInit ==
    /\ announces = [n \in Namespaces |-> 0]
    /\ announced = [h \in Handles |-> NoAnnounce]
    /\ subscribed = {}
    /\ unknown = <<>>
    /\ outgoing = <<>>
    /\ pubCalled = "Ok"

PublisherNext ==
    \/ \E namespace \in Namespaces : announce(namespace)
    \/ \E namespace \in Namespaces, err \in AnnounceErrors : recv_announce_error(namespace, err)
    \/ \E h \in Handles : drop_announce(h)
    \/ \E id \in SubscribeIds, namespace \in Namespaces : recv_subscribe(id, namespace)

\* ------------------------------------------------------------------------
\* session/subscribed.rs: Subscribed and its State
\* ------------------------------------------------------------------------

\* The largest group id and object id of the objects of the served track.
MaxGroupId == 1

MaxObjectId == 1

\* Option<(u64, u64)>: None, or Some((group_id, object_id)) as a pair.
None == <<>>

Positions == (0..MaxGroupId) \X (0..MaxObjectId)

\* The errors a subscription is closed with.
ServeErrors == {"Done", "Cancel"}

\* State::new.
State_new == [ok |-> FALSE, max |-> None, closed |-> "Ok"]

\* State::ok: the state after it and the message it sends.
State_ok(s, at) ==
    [state |-> [s EXCEPT !.ok = TRUE, !.max = at],
     sent |-> <<[type |-> "SubscribeOk", latest |-> at]>>,
     res |-> "Ok"]

\* State::close: once; SubscribeDone with last = max after State::ok,
\* SubscribeError before it.
State_close(s, err) ==
    IF s.closed # "Ok" THEN [state |-> s, sent |-> <<>>, res |-> s.closed]
    ELSE [state |-> [s EXCEPT !.closed = err],
          sent |-> IF s.ok THEN <<[type |-> "SubscribeDone", last |-> s.max]>>
                   ELSE <<[type |-> "SubscribeError"]>>,
          res |-> "Ok"]

\* State::update_max.
update_max(s, group_id, object_id) ==
    IF s.closed # "Ok" THEN Result(s, s.closed)
    ELSE IF s.max # None
         THEN IF group_id >= s.max[1] /\ object_id >= s.max[2]
              THEN Result([s EXCEPT !.max = <<group_id, object_id>>], "Ok")
              ELSE Result(s, "Ok")
         ELSE Result(s, "Ok")

\* Subscribed::serve up to its loop: State::ok with the track's latest.
Subscribed_serve(at) ==
    /\ serving.run = "new"
    /\ LET r == State_ok(serving.state, at)
       IN  serving' = [serving EXCEPT !.run = "serving", !.state = r.state,
                                      !.latest = at, !.sent = @ \o r.sent,
                                      !.called = r.res]
    /\ SubscribedOnly

\* Subscribed::serve_object (and one object of serve_group, serve_track or
\* serve_datagram): the position is recorded with update_max, and the object
\* goes out unless the subscription was closed.
Subscribed_serve_object(group_id, object_id) ==
    /\ serving.run = "serving"
    /\ serving.datagrams = {}
    /\ <<group_id, object_id>> \notin serving.objects
    /\ LET r == update_max(serving.state, group_id, object_id)
       IN  serving' = [serving EXCEPT
                          !.state = r.state,
                          !.objects = IF r.res = "Ok" THEN @ \cup {<<group_id, object_id>>}
                                      ELSE @,
                          !.called = r.res]
    /\ SubscribedOnly

\* Subscribed::serve_datagram on a Datagram event of the track: the
\* datagram is encoded into a buffer and its position recorded; the call of
\* Publisher::send_datagram is commented out, so the transport is handed
\* nothing.
serve_datagram(s, transmitted, group_id, object_id) ==
    LET r == update_max(s, group_id, object_id)
    IN  [state |-> r.state, transmitted |-> transmitted, res |-> r.res]

\* The Datagram arm of the loop of Subscribed::serve.  A track is in one
\* mode: a track of datagrams has no objects.
Subscribed_serve_datagram(group_id, object_id) ==
    /\ serving.run = "serving"
    /\ serving.objects = {}
    /\ <<group_id, object_id>> \notin serving.datagrams
    /\ LET r == serve_datagram(serving.state, serving.transmitted, group_id, object_id)
       IN  serving' = [serving EXCEPT
                          !.state = r.state,
                          !.datagrams = @ \cup {<<group_id, object_id>>},
                          !.transmitted = r.transmitted,
                          !.called = r.res]
    /\ SubscribedOnly

\* Subscribed::close, and the drop of the State (with ServeError::Done).
Subscribed_close(err) ==
    /\ LET r == State_close(serving.state, err)
       IN  serving' = [serving EXCEPT !.state = r.state, !.sent = @ \o r.sent,
                                      !.called = r.res]
    /\ SubscribedOnly

\* Publisher::recv_unsubscribe, SubscribedRecv::recv_unsubscribe: State::close
\* is called with the lock of Publisher.subscribed held.  On a state that
\* is not closed it sets closed and calls send_message, which calls
\* drop_subscribe before it pushes the message, and drop_subscribe locks
\* Publisher.subscribed again: the std Mutex panics or blocks for ever, how
\* is a choice here, and the message is not pushed.
Subscribed_recv_unsubscribe(relock) ==
    /\ serving.called \notin {"Panic", "Deadlock"}
    /\ LET r == State_close(serving.state, "Done")
       IN  serving' = [serving EXCEPT !.state = r.state,
                                      !.called = IF r.res = "Ok" THEN relock ELSE r.res]
    /\ SubscribedOnly

SubscribedInit ==
    serving = [run |-> "new", state |-> State_new, latest |-> None, objects |-> {},
               datagrams |-> {}, transmitted |-> {}, sent |-> <<>>, called |-> "Ok"]

SubscribedNext ==
    \/ \E at \in Positions \cup {None} : Subscribed_serve(at)
    \/ \E p \in Positions : Subscribed_serve_object(p[1], p[2])
    \/ \E p \in Positions : Subscribed_serve_datagram(p[1], p[2])
    \/ \E err \in ServeErrors : Subscribed_close(err)
    \/ \E relock \in {"Panic", "Deadlock"} : Subscribed_recv_unsubscribe(relock)

\* ------------------------------------------------------------------------
\* session/subscribe.rs: SubscribeRecv, and the subscription map of
\* session/subscriber.rs
\* ------------------------------------------------------------------------

\* The codes a peer puts in SubscribeReset and SubscribeError.
Codes == {1, 2}

\* CacheError::Reset(code), as the name of the error.
CacheError_Reset(code) == <<"Reset(1)", "Reset(2)">>[code]

\* The terminal messages of a subscription and the error each is turned
\* into by Subscriber::recv_message.
TerminalErrors == {CacheError_Reset(code) : code \in Codes} \cup {"Closed"}

\* No entry under an id, and SubscribeRecv as Subscribe::new makes it: the
\* writer is the track's, in its first mode.
NoSubscribe == [status |-> "none", writer |-> "None", closed |-> "Ok"]

SubscribeRecv_new == [status |-> "active", writer |-> "Track", closed |-> "Ok"]

\* The result of a SubscribeRecv method: the receiver, the track's state
\* and what is returned.
RecvResult(r, t, res) == [recv |-> r, track |-> t, res |-> res]

\* TrackWriterMode::close: the close of the track the writer belongs to.
TrackWriterMode_close(t, err) == track_close(t, err)

\* SubscribeRecv::error(self, err)
SubscribeRecv_error(r, t, err) ==
    IF r.writer = "None" THEN RecvResult(r, t, "Done")
    ELSE LET c == TrackWriterMode_close(t, err)
             taken == [r EXCEPT !.writer = "None"]
         IN  IF c.res # "Ok" THEN RecvResult(taken, c.state, c.res)
             ELSE RecvResult([taken EXCEPT !.closed = err], c.state, "Ok")

\* SubscribeRecv::group: the writer is taken, the group is created on it,
\* and the writer is put back once that succeeded.
SubscribeRecv_group(r, t, group_id) ==
    IF r.writer = "None" THEN RecvResult(r, t, "Done")
    ELSE LET taken == [r EXCEPT !.writer = "None"]
         IN  IF r.writer \notin {"Track", "Groups"} THEN RecvResult(taken, t, "Mode")
             ELSE LET c == insert_group(t, group_id)
                  IN  IF c.res # "Ok" THEN RecvResult(taken, c.state, c.res)
                      ELSE RecvResult([r EXCEPT !.writer = "Groups"], c.state, "Ok")

\* SubscribeRecv::datagram: the writer is taken and the datagram written.
SubscribeRecv_datagram(r, t, group_id, object_id) ==
    IF r.writer = "None" THEN RecvResult(r, t, "Done")
    ELSE LET taken == [r EXCEPT !.writer = "None"]
         IN  IF r.writer \notin {"Track", "Datagrams"} THEN RecvResult(taken, t, "Mode")
             ELSE LET c == insert_datagram(t, group_id, object_id)
                  IN  RecvResult(taken, c.state, c.res)

\* The subscriber's map and tracks after a handler: what is returned, the
\* map and the tracks.
Handled(res, m, ts) == [res |-> res, subscribes |-> m, tracks |-> ts]

\* Subscriber::recv_subscribe_error: the entry is removed, then closed.
Subscriber_recv_subscribe_error(m, ts, id, err) ==
    IF m[id].status # "active" THEN Handled("NotFound", m, ts)
    ELSE LET r == SubscribeRecv_error(m[id], ts[id], err)
         IN  Handled(r.res, [m EXCEPT ![id] = [r.recv EXCEPT !.status = "removed"]],
                     [ts EXCEPT ![id] = r.track])

\* The lookup of a data stream's subscribe id (as in Subscriber::run_group)
\* and the group made on the entry found.
Subscriber_recv_group(m, ts, id, group_id) ==
    IF m[id].status # "active" THEN Handled("NotFound", m, ts)
    ELSE LET r == SubscribeRecv_group(m[id], ts[id], group_id)
         IN  Handled(r.res, [m EXCEPT ![id] = r.recv], [ts EXCEPT ![id] = r.track])

\* The same lookup for a datagram.
Subscriber_recv_datagram(m, ts, id, group_id, object_id) ==
    IF m[id].status # "active" THEN Handled("NotFound", m, ts)
    ELSE LET r == SubscribeRecv_datagram(m[id], ts[id], group_id, object_id)
         IN  Handled(r.res, [m EXCEPT ![id] = r.recv], [ts EXCEPT ![id] = r.track])

SetSubscriber(h) ==
    /\ subscribes' = h.subscribes
    /\ tracks' = h.tracks
    /\ recvCalled' = h.res
    /\ SubscribeOnly

\* A subscription is made under id: Subscribe::new, and the insert into the
\* map.
subscribe(id) ==
    /\ subscribes[id].status = "none"
    /\ SetSubscriber(Handled("Ok", [subscribes EXCEPT ![id] = SubscribeRecv_new], tracks))

\* A terminal message for id arrives.
recv_subscribe_error(id, err) ==
    /\ id \in SubscribeIds
    /\ SetSubscriber(Subscriber_recv_subscribe_error(subscribes, tracks, id, err))

\* A group stream for id arrives.
recv_group(id, group_id) ==
    /\ tracks[id].epoch < MaxEpoch
    /\ SetSubscriber(Subscriber_recv_group(subscribes, tracks, id, group_id))

\* A datagram for id arrives.
recv_datagram(id, group_id, object_id) ==
    /\ tracks[id].epoch < MaxEpoch
    /\ SetSubscriber(Subscriber_recv_datagram(subscribes, tracks, id, group_id, object_id))

SubscribeInit ==
    /\ subscribes = [id \in SubscribeIds |-> NoSubscribe]
    /\ tracks = [id \in SubscribeIds |-> StateDefault]
    /\ recvCalled = "Ok"

SubscribeNext ==
    \/ \E id \in SubscribeIds : subscribe(id)
    \/ \E id \in SubscribeIds, err \in TerminalErrors : recv_subscribe_error(id, err)
    \/ \E id \in SubscribeIds, group_id \in GroupIds : recv_group(id, group_id)
    \/ \E id \in SubscribeIds, p \in Positions : recv_datagram(id, p[1], p[2])

\* ------------------------------------------------------------------------
\* moq-relay remote.rs: Remotes, the remote sessions by URL
\* ------------------------------------------------------------------------

\* The remotes made in one run, the concurrent callers of route() and the
\* readers one remote hands out.
MaxRemotes == 2

MaxCallers == 2

MaxRemoteReaders == 1

Urls == {"u", "v"}

RemoteIds == 1..MaxRemotes

Callers == 1..MaxCallers

NoRemote == [status |-> "none", url |-> "u", readers |-> 0]

NoCaller == [pc |-> "idle", url |-> "u", remote |-> 0]

\* The clones of the consumer half of the State<RemoteState> of remote r:
\* the one in the lookup table, the RemoteConsumers callers hold, and the
\* parent each RemoteTrackReader keeps for its drop handler.
Holders(l, rs, cs, r) ==
    (IF l[rs[r].url] = r THEN 1 ELSE 0)
    + Cardinality({c \in Callers : cs[c].pc = "routed" /\ cs[c].remote = r})
    + rs[r].readers

\* util::State: lock().modified() is None, and lock_mut() fails, once every
\* clone of the other half is dropped.
State_dropped(holders) == holders = 0

\* The locked part of RemotesConsumer::route for one caller, url being the
\* origin found: st is the lookup table and the queue, id the remote
\* that is made if none is there.
Routed(l, q, remote, made) == [lookup |-> l, requested |-> q, remote |-> remote, made |-> made]

\* Mutant of RemotesConsumer_route: the lookup table is not consulted.
RemotesConsumer_route_NoLookup(l, q, url, id) ==
    Routed([l EXCEPT ![url] = id], Append(q, id), id, TRUE)

RemotesConsumer_route(l, q, url, id) ==
    IF l[url] # 0 THEN Routed(l, q, l[url], FALSE)
    ELSE Routed([l EXCEPT ![url] = id], Append(q, id), id, TRUE)

\* RemoteProducer::next: a requested track, None once every consumer is
\* dropped, or pending.
RemoteProducer_next(wanted, holders) ==
    IF wanted > 0 THEN "Some"
    ELSE IF State_dropped(holders) THEN "None"
    ELSE "Pending"

\* RemoteProducer::run_inner with nothing requested and no subscription
\* open: it returns when the session to the remote ended, or when next()
\* gave None; else it stays in its select.
RemoteProducer_run_inner(ended, holders) ==
    IF ended # "Running" THEN "Returned"
    ELSE IF RemoteProducer_next(0, holders) = "None" THEN "Returned"
    ELSE "Running"

FreeRemotes == {r \in RemoteIds : remotes[r].status = "none"}

\* RemotesConsumer::route up to the await of api.get_origin: url is the
\* origin found.
route_origin(c, url) ==
    /\ callers[c].pc = "idle"
    /\ callers' = [callers EXCEPT ![c] = [pc |-> "origin", url |-> url, remote |-> 0]]
    /\ UNCHANGED <<lookup, requested, remotes>>
    /\ RemotesOnly

\* RemotesConsumer::route, no origin for the namespace: Ok(None).
route_none(c) ==
    /\ callers[c].pc = "idle"
    /\ callers' = [callers EXCEPT ![c] = [pc |-> "none", url |-> "u", remote |-> 0]]
    /\ UNCHANGED <<lookup, requested, remotes>>
    /\ RemotesOnly

\* RemotesConsumer::route from self.state.lock() on.
route(c) ==
    /\ callers[c].pc = "origin"
    /\ FreeRemotes # {}
    /\ LET id == CHOOSE r \in FreeRemotes : \A o \in FreeRemotes : r <= o
           res == RemotesConsumer_route(lookup, requested, callers[c].url, id)
       IN  /\ lookup' = res.lookup
           /\ requested' = res.requested
           /\ remotes' = IF res.made
                         THEN [remotes EXCEPT ![id] = [status |-> "queued",
                                                       url |-> callers[c].url,
                                                       readers |-> 0]]
                         ELSE remotes
           /\ callers' = [callers EXCEPT ![c].pc = "routed", ![c].remote = res.remote]
    /\ RemotesOnly

\* The caller takes a track of the remote it holds: the RemoteTrackReader
\* keeps a clone of the remote's state.
caller_subscribe(c) ==
    /\ callers[c].pc = "routed"
    /\ remotes[callers[c].remote].status \in {"queued", "running"}
    /\ remotes[callers[c].remote].readers < MaxRemoteReaders
    /\ remotes' = [remotes EXCEPT ![callers[c].remote].readers = @ + 1]
    /\ UNCHANGED <<lookup, requested, callers>>
    /\ RemotesOnly

\* The caller drops its RemoteConsumer, or forgets the None it got.
caller_drop(c) ==
    /\ callers[c].pc \in {"routed", "none"}
    /\ callers' = [callers EXCEPT ![c] = NoCaller]
    /\ UNCHANGED <<lookup, requested, remotes>>
    /\ RemotesOnly

\* The last clone of a RemoteTrackReader of r is dropped.
remote_reader_drop(r) ==
    /\ remotes[r].readers > 0
    /\ remotes' = [remotes EXCEPT ![r].readers = @ - 1]
    /\ UNCHANGED <<lookup, requested, callers>>
    /\ RemotesOnly

\* RemotesProducer::run, the self.next() arm: the remote at the head of
\* the queue becomes a task that runs it.
RemotesProducer_next ==
    /\ requested # <<>>
    /\ requested' = Tail(requested)
    /\ remotes' = [remotes EXCEPT ![Head(requested)].status = "running"]
    /\ UNCHANGED <<lookup, callers>>
    /\ RemotesOnly

\* The task of remote r: RemoteProducer::run, with the session to the
\* remote still running or ended.  When run returns the task yields the url.
RemoteProducer_run(r, ended) ==
    /\ remotes[r].status = "running"
    /\ RemoteProducer_run_inner(ended, Holders(lookup, remotes, callers, r)) = "Returned"
    /\ remotes' = [remotes EXCEPT ![r].status = "returned"]
    /\ UNCHANGED <<lookup, requested, callers>>
    /\ RemotesOnly

\* RemotesProducer::run, the tasks.next() arm: the url of a task that
\* ended is removed from the lookup table.
RemotesProducer_remove(r) ==
    /\ remotes[r].status = "returned"
    /\ lookup' = [lookup EXCEPT ![remotes[r].url] = 0]
    /\ remotes' = [remotes EXCEPT ![r].status = "removed"]
    /\ UNCHANGED <<requested, callers>>
    /\ RemotesOnly

RemotesInit ==
    /\ lookup = [url \in Urls |-> 0]
    /\ requested = <<>>
    /\ remotes = [r \in RemoteIds |-> NoRemote]
    /\ callers = [c \in Callers |-> NoCaller]

RemotesNext ==
    \/ \E c \in Callers, url \in Urls : route_origin(c, url)
    \/ \E c \in Callers : route_none(c)
    \/ \E c \in Callers : route(c)
    \/ \E c \in Callers : caller_subscribe(c)
    \/ \E c \in Callers : caller_drop(c)
    \/ \E r \in RemoteIds : remote_reader_drop(r)
    \/ RemotesProducer_next
    \/ \E r \in RemoteIds, ended \in {"Running", "Ended"} : RemoteProducer_run(r, ended)
    \/ \E r \in RemoteIds : RemotesProducer_remove(r)

\* ------------------------------------------------------------------------
\* moq-relay remote.rs: RemoteConsumer::subscribe, the readers of one remote
\* ------------------------------------------------------------------------

\* The readers made for one remote in one run, and the clones of one.
MaxTrackReaders == 3

MaxClones == 2

\* (namespace, name)
Keys == {"a/x", "a/y"}

TrackReaderIds == 1..MaxTrackReaders

\* The RemoteTrackDrop behind a reader: strong is the count of the Arc;
\* "dropping" is between the count reaching zero and Drop::drop taking the
\* lock of the parent state.
NoReader == [status |-> "none", key |-> "a/x", strong |-> 0]

\* RemoteTrackWeak::upgrade
upgrade(rd) == rd.strong > 0

Subscribed(t, q, rds, reader) == [tracks |-> t, requested |-> q, readers |-> rds, reader |-> reader]

\* RemoteConsumer::subscribe, under the lock of the remote's state: id is
\* the reader that is made if the entry cannot be upgraded.
RemoteConsumer_subscribe(t, q, rds, key, id) ==
    IF t[key] # 0 /\ upgrade(rds[t[key]])
    THEN Subscribed(t, q, [rds EXCEPT ![t[key]].strong = @ + 1], t[key])
    ELSE Subscribed([t EXCEPT ![key] = id], Append(q, id),
                    [rds EXCEPT ![id] = [status |-> "live", key |-> key, strong |-> 1]], id)

\* Drop for RemoteTrackDrop: the entry under the reader's key is removed.
RemoteTrackDrop_drop(t, key) == [t EXCEPT ![key] = 0]

FreeReaders == {g \in TrackReaderIds : remoteReaders[g].status = "none"}

remote_subscribe(key) ==
    /\ FreeReaders # {}
    /\ remoteTracks[key] # 0 => remoteReaders[remoteTracks[key]].strong < MaxClones
    /\ LET id == CHOOSE g \in FreeReaders : \A o \in FreeReaders : g <= o
           r == RemoteConsumer_subscribe(remoteTracks, remoteRequested, remoteReaders, key, id)
       IN  /\ remoteTracks' = r.tracks
           /\ remoteRequested' = r.requested
           /\ remoteReaders' = r.readers
    /\ RemoteOnly

\* A RemoteTrackReader is dropped: the strong count of its Arc goes down,
\* and the drop of the RemoteTrackDrop starts when it reaches zero.
remote_reader_release(g) ==
    /\ remoteReaders[g].status = "live"
    /\ remoteReaders' = [remoteReaders EXCEPT
                            ![g].strong = @ - 1,
                            ![g].status = IF remoteReaders[g].strong = 1 THEN "dropping"
                                          ELSE @]
    /\ UNCHANGED <<remoteTracks, remoteRequested>>
    /\ RemoteOnly

\* Drop::drop of the RemoteTrackDrop of g gets the lock.
remote_reader_dropped(g) ==
    /\ remoteReaders[g].status = "dropping"
    /\ remoteTracks' = RemoteTrackDrop_drop(remoteTracks, remoteReaders[g].key)
    /\ remoteReaders' = [remoteReaders EXCEPT ![g].status = "dropped"]
    /\ UNCHANGED remoteRequested
    /\ RemoteOnly

\* RemoteProducer::next takes the TrackWriter at the head of the queue.
remote_next ==
    /\ remoteRequested # <<>>
    /\ remoteRequested' = Tail(remoteRequested)
    /\ UNCHANGED <<remoteTracks, remoteReaders>>
    /\ RemoteOnly

RemoteInit ==
    /\ remoteTracks = [key \in Keys |-> 0]
    /\ remoteRequested = <<>>
    /\ remoteReaders = [g \in TrackReaderIds |-> NoReader]

RemoteNext ==
    \/ \E key \in Keys : remote_subscribe(key)
    \/ \E g \in TrackReaderIds : remote_reader_release(g)
    \/ \E g \in TrackReaderIds : remote_reader_dropped(g)
    \/ remote_next

\* ------------------------------------------------------------------------
\* model/broadcast.rs: a broadcast, its Publisher and its Subscribers
\* ------------------------------------------------------------------------

\* The tracks made in one broadcast, and the clones of one handle.
MaxTracks == 3

MaxHandles == 2

TrackNames == {"x", "y"}

\* The errors of an explicit close; a drop closes with Closed.
BroadcastErrors == {"Reset", "Closed"}

\* State::default().  tracks maps a name to its track (0: none); made
\* counts the tracks made, the next is made + 1.
BroadcastDefault ==
    [tracks |-> [name \in TrackNames |-> 0], requested |-> <<>>, closed |-> "Ok", made |-> 0]

\* What a call returns: the state after it, Ok or the error, the track.
Returned(s, res, track) == [state |-> s, res |-> res, track |-> track]

\* State::get
Broadcast_get(s, name) == Returned(s, "Ok", s.tracks[name])

\* State::insert of a track made for the call.
Broadcast_insert(s, name) ==
    IF s.closed # "Ok" THEN Returned(s, s.closed, 0)
    ELSE IF s.tracks[name] # 0 THEN Returned(s, "Duplicate", 0)
    ELSE Returned([s EXCEPT !.tracks[name] = s.made + 1, !.made = s.made + 1],
                  "Ok", s.made + 1)

\* State::request
Broadcast_request(s, name) ==
    IF s.closed # "Ok" THEN Returned(s, s.closed, 0)
    ELSE Returned([s EXCEPT !.tracks[name] = s.made + 1,
                            !.requested = Append(@, s.made + 1),
                            !.made = s.made + 1],
                  "Ok", s.made + 1)

\* Mutant of Broadcast_has_next: closed is checked before the queue.
Broadcast_has_next_ClosedFirst(s) ==
    IF s.closed # "Ok" THEN s.closed
    ELSE IF s.requested # <<>> THEN "true"
    ELSE "false"

\* State::has_next
Broadcast_has_next(s) ==
    IF s.requested # <<>> THEN "true"
    ELSE IF s.closed # "Ok" THEN s.closed
    ELSE "false"

\* State::next
Broadcast_next(s) == Returned([s EXCEPT !.requested = Tail(@)], "Ok", Head(s.requested))

\* State::close
Broadcast_close(s, err) ==
    IF s.closed # "Ok" THEN Returned(s, s.closed, 0)
    ELSE Returned([s EXCEPT !.closed = err], "Ok", 0)

\* Drop for Dropped: close(Error::Closed).ok()
Broadcast_Dropped(s) == Broadcast_close(s, "Closed").state

\* Mutant of Subscriber_get_track: the map is not looked up.
Subscriber_get_track_AlwaysRequests(s, name) == Broadcast_request(s, name)

\* Subscriber::get_track, under the state's lock.
Subscriber_get_track(s, name) ==
    IF Broadcast_get(s, name).track # 0 THEN Broadcast_get(s, name)
    ELSE Broadcast_request(s, name)

\* Publisher::create_track
create_track(name) ==
    /\ handles.publishers > 0
    /\ broadcast.made < MaxTracks
    /\ LET r == Broadcast_insert(broadcast, name)
       IN  /\ broadcast' = r.state
           /\ bcCalled' = [op |-> "create_track", res |-> r.res, track |-> r.track]
    /\ UNCHANGED <<handles, bcHistory>>
    /\ BroadcastOnly

\* Publisher::insert_track, of a track made by the caller.
insert_track(name) ==
    /\ handles.publishers > 0
    /\ broadcast.made < MaxTracks
    /\ LET r == Broadcast_insert(broadcast, name)
       IN  /\ broadcast' = r.state
           /\ bcCalled' = [op |-> "insert_track", res |-> r.res, track |-> r.track]
    /\ UNCHANGED <<handles, bcHistory>>
    /\ BroadcastOnly

\* Subscriber::get_track, by any of the Subscriber clones.
get_track(name) ==
    /\ handles.subscribers > 0
    /\ broadcast.made < MaxTracks
    /\ LET r == Subscriber_get_track(broadcast, name)
       IN  /\ broadcast' = r.state
           /\ bcCalled' = [op |-> "get_track", res |-> r.res, track |-> r.track]
           /\ bcHistory' = [bcHistory EXCEPT
                               !.requested = @ \o SubSeq(r.state.requested,
                                                         Len(broadcast.requested) + 1,
                                                         Len(r.state.requested))]
    /\ UNCHANGED handles
    /\ BroadcastOnly

\* Publisher::next_track, when it returns: a queued track, or the error.
next_track ==
    /\ handles.publishers > 0
    /\ Broadcast_has_next(broadcast) # "false"
    /\ IF Broadcast_has_next(broadcast) = "true"
       THEN LET r == Broadcast_next(broadcast)
            IN  /\ broadcast' = r.state
                /\ bcCalled' = [op |-> "next_track", res |-> "Ok", track |-> r.track]
                /\ bcHistory' = [bcHistory EXCEPT !.handed = Append(@, r.track)]
       ELSE /\ bcCalled' = [op |-> "next_track", res |-> Broadcast_has_next(broadcast),
                            track |-> 0]
            /\ UNCHANGED <<broadcast, bcHistory>>
    /\ UNCHANGED handles
    /\ BroadcastOnly

\* Publisher::close(self, err): the state is closed, then the handle is
\* dropped, and with the last handle its Dropped.
publisher_close(err) ==
    /\ handles.publishers > 0
    /\ LET r == Broadcast_close(broadcast, err)
       IN  /\ broadcast' = IF handles.publishers = 1 THEN Broadcast_Dropped(r.state)
                           ELSE r.state
           /\ bcCalled' = [op |-> "close", res |-> r.res, track |-> 0]
    /\ handles' = [handles EXCEPT !.publishers = @ - 1]
    /\ UNCHANGED bcHistory
    /\ BroadcastOnly

publisher_clone ==
    /\ handles.publishers \in 1..(MaxHandles - 1)
    /\ handles' = [handles EXCEPT !.publishers = @ + 1]
    /\ UNCHANGED <<broadcast, bcCalled, bcHistory>>
    /\ BroadcastOnly

\* A Publisher clone is dropped; the last one drops the Dropped.
publisher_drop ==
    /\ handles.publishers > 0
    /\ handles' = [handles EXCEPT !.publishers = @ - 1]
    /\ broadcast' = IF handles.publishers = 1 THEN Broadcast_Dropped(broadcast) ELSE broadcast
    /\ bcCalled' = [op |-> "drop", res |-> "Ok", track |-> 0]
    /\ UNCHANGED bcHistory
    /\ BroadcastOnly

subscriber_clone ==
    /\ handles.subscribers \in 1..(MaxHandles - 1)
    /\ handles' = [handles EXCEPT !.subscribers = @ + 1]
    /\ UNCHANGED <<broadcast, bcCalled, bcHistory>>
    /\ BroadcastOnly

\* A Subscriber clone is dropped; the last one drops the Dropped.
subscriber_drop ==
    /\ handles.subscribers > 0
    /\ handles' = [handles EXCEPT !.subscribers = @ - 1]
    /\ broadcast' = IF handles.subscribers = 1 THEN Broadcast_Dropped(broadcast) ELSE broadcast
    /\ bcCalled' = [op |-> "drop", res |-> "Ok", track |-> 0]
    /\ UNCHANGED bcHistory
    /\ BroadcastOnly

\* broadcast::new
BroadcastInit ==
    /\ broadcast = BroadcastDefault
    /\ handles = [publishers |-> 1, subscribers |-> 1]
    /\ bcCalled = [op |-> "new", res |-> "Ok", track |-> 0]
    /\ bcHistory = [requested |-> <<>>, handed |-> <<>>]

BroadcastNext ==
    \/ \E name \in TrackNames : create_track(name)
    \/ \E name \in TrackNames : insert_track(name)
    \/ \E name \in TrackNames : get_track(name)
    \/ next_track
    \/ \E err \in BroadcastErrors : publisher_close(err)
    \/ publisher_clone
    \/ publisher_drop
    \/ subscriber_clone
    \/ subscriber_drop

\* ------------------------------------------------------------------------
\* coding/varint.rs: VarInt, its Encode and Decode
\* ------------------------------------------------------------------------

\* The width of a byte, 8 bits, scaled down.  The two high bits of the
\* first byte are the tag; an encoding is 1, 2, 4 or 8 bytes, so a u64 has
\* 8 * ByteBits bits and a VarInt holds less than 2^(8 * ByteBits - 2).
ByteBits == 3

\* The bits of the value in an encoding of n bytes: 6, 14, 30, 62.
ValueBits(n) == n * ByteBits - 2

\* The u64 values a VarInt is made to hold: every value up to the third
\* threshold and some, the values around the last threshold, and the
\* largest u64.  VarInt(pub u64) can hold values from_u64 refuses.
VarIntValues ==
    0..(2 ^ ValueBits(4) + 8)
    \cup (2 ^ ValueBits(8) - 4)..(2 ^ ValueBits(8) + 4)
    \cup {k * (2 ^ (ValueBits(8) - 4) + 1) : k \in 1..15}
    \cup {2 ^ (8 * ByteBits) - 1}

\* The bytes that follow an encoding in the stream it is decoded from.
Trailers == {<<>>, <<0>>, <<2 ^ ByteBits - 1, 1>>}

\* VarInt::from_u64
VarInt_from_u64(x) ==
    IF x < 2 ^ ValueBits(8) THEN [res |-> "Ok", value |-> x]
    ELSE [res |-> "BoundsExceeded", value |-> 0]

\* write_u8 / write_u16 / write_u32 / write_u64: the n bytes of word, the
\* most significant first.
to_be_bytes(word, n) == [i \in 1..n |-> (word \div (2 ^ (ByteBits * (n - i)))) % (2 ^ ByteBits)]

\* u16::from_be_bytes and the like.
RECURSIVE from_be_bytes(_)
from_be_bytes(bytes) ==
    IF bytes = <<>> THEN 0
    ELSE (Head(bytes) * (2 ^ (ByteBits * (Len(bytes) - 1)))) + from_be_bytes(Tail(bytes))

\* tag << (bits of the word - 2) | x as the word's type: the cast keeps
\* the low bits of x, and below the threshold they do not reach the tag.
Tagged(tag, x, n) == (tag * 2 ^ ValueBits(n)) + (x % (2 ^ (n * ByteBits)))

\* <VarInt as Encode>::encode: what is written, or the error.
VarInt_encode(x) ==
    IF x < 2 ^ ValueBits(1) THEN [res |-> "Ok", bytes |-> to_be_bytes(Tagged(0, x, 1), 1)]
    ELSE IF x < 2 ^ ValueBits(2) THEN [res |-> "Ok", bytes |-> to_be_bytes(Tagged(1, x, 2), 2)]
    ELSE IF x < 2 ^ ValueBits(4) THEN [res |-> "Ok", bytes |-> to_be_bytes(Tagged(2, x, 4), 4)]
    ELSE IF x < 2 ^ ValueBits(8) THEN [res |-> "Ok", bytes |-> to_be_bytes(Tagged(3, x, 8), 8)]
    ELSE [res |-> "malformed VarInt", bytes |-> <<>>]

\* Mutant of VarInt_decode: the tag is left in the first byte.
VarInt_decode_KeepsTag(r) ==
    IF Len(r) < 1 THEN [res |-> "UnexpectedEof", value |-> 0, read |-> Len(r)]
    ELSE LET tag == r[1] \div (2 ^ (ByteBits - 2))
             n == 2 ^ tag
         IN  IF Len(r) < n THEN [res |-> "UnexpectedEof", value |-> 0, read |-> Len(r)]
             ELSE [res |-> "Ok", value |-> from_be_bytes(SubSeq(r, 1, n)), read |-> n]

\* <VarInt as Decode>::decode from the stream r: the value and the bytes
\* read, or the error of read_exact at the end of the stream.
VarInt_decode(r) ==
    IF Len(r) < 1 THEN [res |-> "UnexpectedEof", value |-> 0, read |-> Len(r)]
    ELSE LET tag == r[1] \div (2 ^ (ByteBits - 2))
             first == r[1] % (2 ^ (ByteBits - 2))
             n == 2 ^ tag
         IN  IF Len(r) < n THEN [res |-> "UnexpectedEof", value |-> 0, read |-> Len(r)]
             ELSE [res |-> "Ok", value |-> from_be_bytes(<<first>> \o SubSeq(r, 2, n)),
                   read |-> n]

NoCodec ==
    [pc |-> "none", value |-> 0, made |-> "Ok", res |-> "Ok", bytes |-> <<>>, stream |-> <<>>,
     decoded |-> [res |-> "Ok", value |-> 0, read |-> 0]]

\* A VarInt holding x, and what from_u64 says of x.
varint_new(x) ==
    /\ codec.pc = "none"
    /\ codec' = [NoCodec EXCEPT !.pc = "new", !.value = x, !.made = VarInt_from_u64(x).res]
    /\ CodecOnly

varint_encode ==
    /\ codec.pc = "new"
    /\ codec' = [codec EXCEPT !.pc = "encoded", !.res = VarInt_encode(codec.value).res,
                               !.bytes = VarInt_encode(codec.value).bytes]
    /\ CodecOnly

\* The encoding is decoded from a stream in which trailer follows it.
varint_decode(trailer) ==
    /\ codec.pc = "encoded"
    /\ codec.res = "Ok"
    /\ codec' = [codec EXCEPT !.pc = "decoded", !.stream = codec.bytes \o trailer,
                               !.decoded = VarInt_decode(codec.bytes \o trailer)]
    /\ CodecOnly

\* A stream that ends inside an encoding is decoded.
varint_decode_short ==
    /\ codec.pc = "encoded"
    /\ codec.res = "Ok"
    /\ Len(codec.bytes) > 1
    /\ codec' = [codec EXCEPT !.pc = "short", !.stream = SubSeq(codec.bytes, 1, Len(codec.bytes) - 1),
                               !.decoded = VarInt_decode(SubSeq(codec.bytes, 1, Len(codec.bytes) - 1))]
    /\ CodecOnly

CodecInit == codec = NoCodec

CodecNext ==
    \/ \E x \in VarIntValues : varint_new(x)
    \/ varint_encode
    \/ \E trailer \in Trailers : varint_decode(trailer)
    \/ varint_decode_short

\* ------------------------------------------------------------------------
\* serve/stream.rs: StreamGroupWriter
\* ------------------------------------------------------------------------

\* The objects one group writer is asked for.
MaxObjects == 3

\* StreamGroupState::default() inside a util::State, whose cell is
\* terminated once the handles of one side are all dropped.
StreamGroupStateDefault == [objects |-> <<>>, closed |-> "Ok", terminated |-> FALSE]

\* StreamGroupWriter::new
StreamGroupWriter_new == [status |-> "alive", next |-> 0]

\* StreamGroupWriter::create(size): the writer and the state after, and
\* what is returned.  The object made takes self.next as its object_id, and
\* its reader is pushed on the objects of the group; self.next is not
\* assigned.
StreamGroupWriter_create(w, s, size) ==
    IF s.terminated THEN [writer |-> w, state |-> s, res |-> "Done"]
    ELSE [writer |-> w,
          state |-> [s EXCEPT !.objects = Append(@, [object_id |-> w.next, size |-> size,
                                                     written |-> 0])],
          res |-> "Ok"]

\* StreamGroupWriter::write(payload): create(payload.len()), then the
\* payload is written to the object as one chunk.
StreamGroupWriter_write(w, s, len) ==
    LET c == StreamGroupWriter_create(w, s, len)
    IN  IF c.res # "Ok" THEN c
        ELSE [c EXCEPT !.state.objects[Len(c.state.objects)].written = len]

\* StreamGroupWriter::close(self, err)
StreamGroupWriter_close(s, err) ==
    IF s.terminated THEN Result(s, "Done")
    ELSE Result([s EXCEPT !.closed = err], "Ok")

\* One pass of the loop of StreamGroupReader::next under the read lock.
\* self.index is incremented before state.objects is indexed with it: the
\* object returned is the one after the index-th, and indexing a Vec at
\* its length panics.  at is the place in objects of the object returned.
StreamGroupReader_next(s, index) ==
    IF index < Len(s.objects)
    THEN IF index + 1 < Len(s.objects)
         THEN [ret |-> "Some", at |-> index + 2, index |-> index + 1]
         ELSE [ret |-> "Panic", at |-> 0, index |-> index + 1]
    ELSE IF s.closed # "Ok" THEN [ret |-> s.closed, at |-> 0, index |-> index]
    ELSE IF s.terminated THEN [ret |-> "None", at |-> 0, index |-> index]
    ELSE [ret |-> "Pending", at |-> 0, index |-> index]

group_writer_create(size) ==
    /\ groupWriter.status = "alive"
    /\ Len(groupState.objects) < MaxObjects
    /\ LET c == StreamGroupWriter_create(groupWriter, groupState, size)
       IN  /\ groupWriter' = c.writer
           /\ groupState' = c.state
           /\ groupCalled' = c.res
    /\ UNCHANGED groupReader
    /\ GroupOnly

group_writer_write(len) ==
    /\ groupWriter.status = "alive"
    /\ Len(groupState.objects) < MaxObjects
    /\ LET c == StreamGroupWriter_write(groupWriter, groupState, len)
       IN  /\ groupWriter' = c.writer
           /\ groupState' = c.state
           /\ groupCalled' = c.res
    /\ UNCHANGED groupReader
    /\ GroupOnly

\* close takes the writer, which is dropped when it returns.
group_writer_close(err) ==
    /\ groupWriter.status = "alive"
    /\ LET c == StreamGroupWriter_close(groupState, err)
       IN  /\ groupState' = [c.state EXCEPT !.terminated = TRUE]
           /\ groupCalled' = c.res
    /\ groupWriter' = [groupWriter EXCEPT !.status = "closed"]
    /\ UNCHANGED groupReader
    /\ GroupOnly

group_writer_drop ==
    /\ groupWriter.status = "alive"
    /\ groupState' = [groupState EXCEPT !.terminated = TRUE]
    /\ groupWriter' = [groupWriter EXCEPT !.status = "dropped"]
    /\ UNCHANGED <<groupCalled, groupReader>>
    /\ GroupOnly

\* The StreamGroupReader is dropped, and the reader half of the util::State
\* with it.
group_reader_drop ==
    /\ groupReader.status = "alive"
    /\ groupReader' = [groupReader EXCEPT !.status = "dropped"]
    /\ groupState' = [groupState EXCEPT !.terminated = TRUE]
    /\ UNCHANGED <<groupWriter, groupCalled>>
    /\ GroupOnly

\* StreamGroupReader::next returns, or panics and unwinds: the reader is
\* dropped by the unwinding.
group_reader_next ==
    /\ groupReader.status = "alive"
    /\ LET n == StreamGroupReader_next(groupState, groupReader.index)
       IN  /\ n.ret # "Pending"
           /\ groupReader' = [status |-> IF n.ret = "Panic" THEN "panicked" ELSE "alive",
                              index |-> n.index,
                              got |-> IF n.ret = "Some" THEN Append(groupReader.got, n.at)
                                      ELSE groupReader.got,
                              last |-> n.ret]
           /\ groupState' = IF n.ret = "Panic" THEN [groupState EXCEPT !.terminated = TRUE]
                            ELSE groupState
    /\ UNCHANGED <<groupWriter, groupCalled>>
    /\ GroupOnly

GroupInit ==
    /\ groupState = StreamGroupStateDefault
    /\ groupWriter = StreamGroupWriter_new
    /\ groupCalled = "Ok"
    /\ groupReader = [status |-> "alive", index |-> 0, got |-> <<>>, last |-> ""]

GroupNext ==
    \/ \E size \in Sizes : group_writer_create(size)
    \/ \E len \in Sizes : group_writer_write(len)
    \/ \E err \in StreamCloseErrors : group_writer_close(err)
    \/ group_writer_drop
    \/ group_reader_drop
    \/ group_reader_next

\* ------------------------------------------------------------------------
\* serve/object.rs: ObjectWriter and the loop of ObjectReader::read, on the
\* watched state
\* ------------------------------------------------------------------------

\* The watched state of the specification around an ObjectState: a write
\* lock that mutates raises the version, and the notification handed out
\* under a read lock is tied to the version read under it.  writes counts
\* the writes and the termination, for the record.
CellDefault == [state |-> StreamObjectStateDefault, version |-> 0, writes |-> 0]

\* The notification tied to since has fired: the cell was written after,
\* or is terminated.
Fired(c, since) == c.version > since \/ c.state.terminated

\* ObjectWriter::write(chunk) under the write lock.
ObjectWriter_write(c, chunk) ==
    IF c.state.terminated THEN Result(c, "Done")
    ELSE Result([c EXCEPT !.state.chunks = Append(@, chunk), !.version = @ + 1,
                          !.writes = @ + 1], "Ok")

\* ObjectWriter::close(self, err) under the write lock; the writer is
\* dropped when it returns, and its half of the state with it.
ObjectWriter_close(c, err) ==
    IF c.state.terminated THEN Result(c, "Done")
    ELSE Result([c EXCEPT !.state.closed = err, !.state.terminated = TRUE,
                          !.version = @ + 1, !.writes = @ + 1], "Ok")

\* Mutant of ObjectReader_read: the notification is one for the change
\* after the next.
ObjectReader_read_LateNotify(c, index) ==
    LET n == StreamObjectReader_read(c.state, index)
    IN  [ret |-> n.ret, index |-> n.index, notify |-> c.version + 1]

\* One pass of the loop of ObjectReader::read: the block under the read
\* lock, from which the notification of state.modified() is taken when
\* there is nothing to return.
ObjectReader_read(c, index) ==
    LET n == StreamObjectReader_read(c.state, index)
    IN  [ret |-> n.ret, index |-> n.index, notify |-> c.version]

\* The ObjectReaders of the object: the first and a clone of it.
Watchers == {1, 2}

\* A reader: where it is in read(), its index and the notification it holds;
\* for the record, the writes there were when it last held the lock, whether
\* the cell was written before it began to wait, and what it returned last.
Watcher == [pc |-> "idle", index |-> 0, notify |-> 0, seen |-> 0, late |-> FALSE, last |-> ""]

\* read() is called, or its loop comes round after notify.await: the block
\* under the lock.  It returns, or leaves the block with the notification.
watch_read(r) ==
    /\ watchers[r].pc \in {"idle", "woken"}
    /\ LET n == ObjectReader_read(cell, watchers[r].index)
       IN  watchers' = [watchers EXCEPT ![r] =
               [pc |-> IF n.ret = "Pending" THEN "unlocked" ELSE "idle",
                index |-> n.index, notify |-> n.notify, seen |-> cell.writes,
                late |-> watchers[r].pc = "woken" /\ watchers[r].late, last |-> n.ret]]
    /\ UNCHANGED cell
    /\ WatchOnly

\* notify.await is reached, the lock released before.
watch_await(r) ==
    /\ watchers[r].pc = "unlocked"
    /\ watchers' = [watchers EXCEPT ![r].pc = "waiting",
                                    ![r].late = cell.writes > watchers[r].seen]
    /\ UNCHANGED cell
    /\ WatchOnly

\* notify.await returns.
watch_wake(r) ==
    /\ watchers[r].pc = "waiting"
    /\ Fired(cell, watchers[r].notify)
    /\ watchers' = [watchers EXCEPT ![r].pc = "woken"]
    /\ UNCHANGED cell
    /\ WatchOnly

\* A chunk is written; its bytes are of no matter to the readers' waiting.
watch_write ==
    /\ Len(cell.state.chunks) < MaxChunks
    /\ ~cell.state.terminated
    /\ cell' = ObjectWriter_write(cell, 1).state
    /\ UNCHANGED watchers
    /\ WatchOnly

watch_close(err) ==
    /\ ~cell.state.terminated
    /\ cell' = ObjectWriter_close(cell, err).state
    /\ UNCHANGED watchers
    /\ WatchOnly

\* The ObjectWriter is dropped without close.
watch_drop ==
    /\ ~cell.state.terminated
    /\ cell' = [cell EXCEPT !.state.terminated = TRUE, !.writes = @ + 1]
    /\ UNCHANGED watchers
    /\ WatchOnly

WatchInit ==
    /\ cell = CellDefault
    /\ watchers = [r \in Watchers |-> Watcher]

WatchNext ==
    \/ \E r \in Watchers : watch_read(r)
    \/ \E r \in Watchers : watch_await(r)
    \/ \E r \in Watchers : watch_wake(r)
    \/ watch_write
    \/ \E err \in StreamCloseErrors : watch_close(err)
    \/ watch_drop

\* ------------------------------------------------------------------------
\* session/control.rs: Control, the control stream behind two mutexes
\* ------------------------------------------------------------------------

\* The messages sent and received on one control stream.
MaxControl == 2

\* The tasks that hold a clone of the Control.
ControlTasks == {1, 2}

ControlMessages == {"Announce", "Subscribe"}

\* Control::new: both mutexes free (0), nothing written, nothing to read.
Control_new == [send |-> 0, recv |-> 0, written |-> <<>>, arrived |-> 0, received |-> 0]

ControlIdle == [pc |-> "idle", msg |-> ""]

\* Control::send(msg) is called: the task is at self.send.lock().await.
control_send(t, msg) ==
    /\ ctlTasks[t].pc = "idle"
    /\ Len(ctl.written) < MaxControl
    /\ ctlTasks' = [ctlTasks EXCEPT ![t] = [pc |-> "send.lock", msg |-> msg]]
    /\ UNCHANGED ctl
    /\ ControlOnly

\* The mutex is free: the task takes it and goes on to
\* msg.into().encode(&mut *stream).await, the write on the stream.
control_send_locked(t) ==
    /\ ctlTasks[t].pc = "send.lock"
    /\ ctl.send = 0
    /\ ctl' = [ctl EXCEPT !.send = t]
    /\ ctlTasks' = [ctlTasks EXCEPT ![t].pc = "encode"]
    /\ ControlOnly

\* The write is done; send returns and the guard is dropped.
control_send_encoded(t) ==
    /\ ctlTasks[t].pc = "encode"
    /\ ctl' = [ctl EXCEPT !.written = Append(@, ctlTasks[t].msg), !.send = 0]
    /\ ctlTasks' = [ctlTasks EXCEPT ![t] = ControlIdle]
    /\ ControlOnly

\* Control::recv() is called: the task is at self.recv.lock().await.
control_recv(t) ==
    /\ ctlTasks[t].pc = "idle"
    /\ ctl.received < MaxControl
    /\ ctlTasks' = [ctlTasks EXCEPT ![t] = [pc |-> "recv.lock", msg |-> ""]]
    /\ UNCHANGED ctl
    /\ ControlOnly

\* The mutex is free: the task takes it and goes on to
\* control::Message::decode(&mut *stream).await, the read on the stream.
control_recv_locked(t) ==
    /\ ctlTasks[t].pc = "recv.lock"
    /\ ctl.recv = 0
    /\ ctl' = [ctl EXCEPT !.recv = t]
    /\ ctlTasks' = [ctlTasks EXCEPT ![t].pc = "decode"]
    /\ ControlOnly

\* A message of the peer has arrived and is decoded; recv returns and the
\* guard is dropped.
control_recv_decoded(t) ==
    /\ ctlTasks[t].pc = "decode"
    /\ ctl.arrived > ctl.received
    /\ ctl' = [ctl EXCEPT !.received = @ + 1, !.recv = 0]
    /\ ctlTasks' = [ctlTasks EXCEPT ![t] = ControlIdle]
    /\ ControlOnly

\* The peer's next message arrives on the stream.
control_arrives ==
    /\ ctl.arrived < MaxControl
    /\ ctl' = [ctl EXCEPT !.arrived = @ + 1]
    /\ UNCHANGED ctlTasks
    /\ ControlOnly

ControlInit ==
    /\ ctl = Control_new
    /\ ctlTasks = [t \in ControlTasks |-> ControlIdle]

ControlNext ==
    \/ \E t \in ControlTasks, msg \in ControlMessages : control_send(t, msg)
    \/ \E t \in ControlTasks : control_send_locked(t)
    \/ \E t \in ControlTasks : control_send_encoded(t)
    \/ \E t \in ControlTasks : control_recv(t)
    \/ \E t \in ControlTasks : control_recv_locked(t)
    \/ \E t \in ControlTasks : control_recv_decoded(t)
    \/ control_arrives

\* ------------------------------------------------------------------------
\* The issue of a subscription: Subscriber::run_source (session/
\* subscriber.rs) and Subscribe::new (session/subscribe.rs)
\* ------------------------------------------------------------------------

\* The subscriptions one subscriber issues.
MaxIssued == 2

\* No subscription is being made (ids are below MaxIssued).
NoIssue == [id |-> MaxIssued, step |-> "none"]

\* next: the id of the next subscription.  subscribes: the ids in the map.
\* making: the subscription a task is in the middle of issuing.  outgoing:
\* the queue of send_message.  wire: the ids whose Subscribe the peer was
\* sent.  via, stored, answered: for the record, how each id was issued,
\* the ids ever put in the map, and for each answer of the peer that was
\* processed whether its id was in the map (found) and whether it had not
\* been put there yet (early).
IssueDefault ==
    [next |-> 0, subscribes |-> {}, making |-> NoIssue, outgoing |-> <<>>, wire |-> {},
     via |-> <<>>, stored |-> {}, answered |-> {}]

\* Subscriber::run_source, one pass of the loop up to the insert: the id is
\* taken and the track is put in the map under it.
run_source_insert(s) ==
    [s EXCEPT !.next = @ + 1, !.subscribes = @ \cup {s.next}, !.stored = @ \cup {s.next},
              !.via = Append(@, "run_source"),
              !.making = [id |-> s.next, step |-> "control.send"]]

\* Subscriber::run_source: self.control.send(msg).await writes the Subscribe
\* on the control stream.
run_source_send(s) == [s EXCEPT !.wire = @ \cup {s.making.id}, !.making = NoIssue]

\* Subscribe::new(subscriber, id, track): the Subscribe is handed to
\* send_message, then the two halves are made and returned.
Subscribe_new(s) ==
    [s EXCEPT !.next = @ + 1, !.outgoing = Append(@, s.next),
              !.via = Append(@, "Subscribe::new"),
              !.making = [id |-> s.next, step |-> "store"]]

\* The caller of Subscribe::new stores the SubscribeRecv it got back in
\* the map ("allocate id, send Subscribe, store writer").
Subscriber_store(s) ==
    [s EXCEPT !.subscribes = @ \cup {s.making.id}, !.stored = @ \cup {s.making.id},
              !.making = NoIssue]

issue_run_source ==
    /\ issue.making = NoIssue
    /\ issue.next < MaxIssued
    /\ issue' = run_source_insert(issue)
    /\ IssueOnly

issue_run_source_send ==
    /\ issue.making.step = "control.send"
    /\ issue' = run_source_send(issue)
    /\ IssueOnly

issue_subscribe ==
    /\ issue.making = NoIssue
    /\ issue.next < MaxIssued
    /\ issue' = Subscribe_new(issue)
    /\ IssueOnly

issue_store ==
    /\ issue.making.step = "store"
    /\ issue' = Subscriber_store(issue)
    /\ IssueOnly

\* The task that sends the queue of send_message takes the head of it and
\* writes it on the control stream.
issue_run_send ==
    /\ issue.outgoing # <<>>
    /\ issue' = [issue EXCEPT !.outgoing = Tail(@), !.wire = @ \cup {Head(issue.outgoing)}]
    /\ IssueOnly

\* The peer answers a Subscribe it was sent with SubscribeOk, a terminal
\* message or a data stream, and the answer is processed: the id is looked
\* up in the map, and a terminal message takes it out.
issue_answered(id, terminal) ==
    /\ id \in issue.wire
    /\ \A a \in issue.answered : a.id # id \/ ~a.terminal
    /\ issue' = [issue EXCEPT
                    !.answered = @ \cup {[id |-> id, terminal |-> terminal,
                                          found |-> id \in issue.subscribes,
                                          early |-> id \notin issue.stored]},
                    !.subscribes = IF terminal THEN @ \ {id} ELSE @]
    /\ IssueOnly

IssueInit == issue = IssueDefault

IssueNext ==
    \/ issue_run_source
    \/ issue_run_source_send
    \/ issue_subscribe
    \/ issue_store
    \/ issue_run_send
    \/ \E id \in 0..(MaxIssued - 1), terminal \in BOOLEAN : issue_answered(id, terminal)

\* ------------------------------------------------------------------------
\* publisher/announce.rs: Announce, AnnounceWeak and AnnounceState
\* ------------------------------------------------------------------------

\* status: whether the AnnounceState was made and whether it was dropped.
\* clones: the Announce handles that share it.  closed: the closed field.
\* sent: the Unannounce messages handed to the session.  removed: whether
\* remove_announce was called.
AnnounceState_new ==
    [status |-> "alive", clones |-> 1, closed |-> "Ok", sent |-> 0, removed |-> FALSE]

NoAnnounceState == [AnnounceState_new EXCEPT !.status = "none", !.clones = 0]

\* Session::send_message of the publisher session: the message is taken
\* while the session accepts messages and refused afterwards.
Session_send_message(open) == IF open THEN "Ok" ELSE "Closed"

\* AnnounceState::close(err)
AnnounceState_close(s, err, open) ==
    IF s.closed # "Ok" THEN Result(s, s.closed)
    ELSE LET c == [s EXCEPT !.closed = err]
         IN  IF Session_send_message(open) # "Ok" THEN Result(c, "Closed")
             ELSE Result([c EXCEPT !.sent = @ + 1, !.removed = TRUE], "Ok")

\* Drop for AnnounceState: self.close(AnnounceError::Done).unwrap()
AnnounceState_drop(s, open) ==
    LET c == AnnounceState_close(s, "Done", open)
    IN  Result([c.state EXCEPT !.status = "dropped"], IF c.res = "Ok" THEN "Ok" ELSE "Panic")

\* AnnounceWeak::close(err): the state is closed if a clone still holds it.
AnnounceWeak_close(s, err, open) ==
    IF s.clones > 0 THEN AnnounceState_close(s, err, open)
    ELSE Result(s, "Dropped")

SetClaimed(namespace, r) ==
    /\ claimed' = [claimed EXCEPT ![namespace] = r.state]
    /\ claimedCalled' = r.res
    /\ UNCHANGED accepting
    /\ ClaimedOnly

\* Announce::new
announce_new(namespace) ==
    /\ claimed[namespace].status = "none"
    /\ SetClaimed(namespace, Result(AnnounceState_new, "Ok"))

\* #[derive(Clone)] on Announce
announce_clone(namespace) ==
    /\ claimed[namespace].status = "alive"
    /\ claimed[namespace].clones < MaxClones
    /\ SetClaimed(namespace, Result([claimed[namespace] EXCEPT !.clones = @ + 1], "Ok"))

\* A clone of the Announce is dropped; the last one drops the AnnounceState.
announce_drop(namespace) ==
    /\ claimed[namespace].status = "alive"
    /\ LET s == [claimed[namespace] EXCEPT !.clones = @ - 1]
       IN  SetClaimed(namespace, IF s.clones = 0 THEN AnnounceState_drop(s, accepting)
                                 ELSE Result(s, "Ok"))

\* The session closes the announce through its AnnounceWeak.
announce_weak_close(namespace, err) ==
    /\ claimed[namespace].status # "none"
    /\ SetClaimed(namespace, AnnounceWeak_close(claimed[namespace], err, accepting))

\* The session ends: it accepts no more messages.
announce_session_ends ==
    /\ accepting
    /\ accepting' = FALSE
    /\ UNCHANGED <<claimed, claimedCalled>>
    /\ ClaimedOnly

ClaimedInit ==
    /\ claimed = [namespace \in Namespaces |-> NoAnnounceState]
    /\ accepting = TRUE
    /\ claimedCalled = "Ok"

ClaimedNext ==
    \/ \E namespace \in Namespaces : announce_new(namespace)
    \/ \E namespace \in Namespaces : announce_clone(namespace)
    \/ \E namespace \in Namespaces : announce_drop(namespace)
    \/ \E namespace \in Namespaces, err \in AnnounceErrors : announce_weak_close(namespace, err)
    \/ announce_session_ends

\* ------------------------------------------------------------------------
\* moq-transfork coding/reader.rs: Reader
\* ------------------------------------------------------------------------

\* The bytes the peer writes on one stream.
MaxStream == 3

\* A byte of the stream.  A message is a length byte and that many bytes.
StreamBytes == {0, 1}

\* buffer: the bytes read and not decoded.  arriving: the bytes the
\* transport has and read_buf has not taken.  end: whether the peer has
\* finished or reset the stream.  sent: the bytes the peer has written.
Reader_new == [buffer |-> <<>>, arriving |-> <<>>, end |-> "open", sent |-> 0]

\* What a Reader method returns, with the Reader after it.
Read(r, res, msg) == [reader |-> r, res |-> res, msg |-> msg]

\* T::decode on a cursor over the buffer: the message and the cursor's
\* position, or More(required).
T_decode(buf) ==
    IF Len(buf) = 0 THEN [res |-> "More", required |-> 1, msg |-> <<>>, position |-> 0]
    ELSE IF buf[1] > Len(buf) - 1
        THEN [res |-> "More", required |-> buf[1] - (Len(buf) - 1), msg |-> <<>>, position |-> 0]
    ELSE [res |-> "Ok", required |-> 0, msg |-> SubSeq(buf, 2, 1 + buf[1]), position |-> 1 + buf[1]]

\* stream.read_buf(&mut self.buffer): the bytes that have arrived are
\* appended (true); at the end of the stream nothing is (false); a reset
\* stream is an error; otherwise the call waits.
read_buf(r) ==
    IF r.arriving # <<>>
        THEN Read([r EXCEPT !.buffer = @ \o r.arriving, !.arriving = <<>>], "true", <<>>)
    ELSE IF r.end = "fin" THEN Read(r, "false", <<>>)
    ELSE IF r.end = "reset" THEN Read(r, "Transport", <<>>)
    ELSE Read(r, "Pending", <<>>)

\* Reader::decode: decode from the buffer, reading more while the decoder
\* asks for more.
RECURSIVE Reader_decode(_)
Reader_decode(r) ==
    LET d == T_decode(r.buffer)
    IN  IF d.res = "Ok"
            THEN Read([r EXCEPT !.buffer = SubSeq(@, d.position + 1, Len(@))], "Ok", d.msg)
        ELSE LET b == read_buf(r)
             IN  IF b.res = "true" THEN Reader_decode(b.reader)
                 ELSE IF b.res = "false" THEN Read(r, "More", <<>>)
                 ELSE Read(r, b.res, <<>>)

\* Reader::finished
Reader_finished(r) ==
    IF r.buffer = <<>>
        THEN LET b == read_buf(r)
             IN  IF b.res = "false" THEN Read(r, "Ok", <<>>)
                 ELSE IF b.res = "true" THEN Read(b.reader, "ExpectedEnd", <<>>)
                 ELSE Read(r, b.res, <<>>)
    ELSE Read(r, "ExpectedEnd", <<>>)

\* Reader::decode_maybe
Reader_decode_maybe(r) ==
    LET f == Reader_finished(r)
    IN  IF f.res = "Ok" THEN Read(f.reader, "None", <<>>)
        ELSE IF f.res = "ExpectedData"
            THEN LET d == Reader_decode(f.reader)
                 IN  Read(d.reader, IF d.res = "Ok" THEN "Some" ELSE d.res, d.msg)
        ELSE f

\* A call on the Reader returns.  A call that waits for the stream returns
\* once the bytes or the end of the stream have arrived.
SetReader(op, c) ==
    /\ stream' = c.reader
    /\ readerCalled' = [op |-> op, res |-> c.res, msg |-> c.msg]
    /\ ReaderOnly

reader_decode ==
    /\ Reader_decode(stream).res # "Pending"
    /\ SetReader("decode", Reader_decode(stream))

reader_decode_maybe ==
    /\ Reader_decode_maybe(stream).res # "Pending"
    /\ SetReader("decode_maybe", Reader_decode_maybe(stream))

reader_finished ==
    /\ Reader_finished(stream).res # "Pending"
    /\ SetReader("finished", Reader_finished(stream))

\* The peer writes a byte on the stream.
reader_arrives(b) ==
    /\ stream.end = "open"
    /\ stream.sent < MaxStream
    /\ stream' = [stream EXCEPT !.arriving = Append(@, b), !.sent = @ + 1]
    /\ UNCHANGED readerCalled
    /\ ReaderOnly

\* The peer finishes or resets the stream.
reader_ends(end) ==
    /\ stream.end = "open"
    /\ stream' = [stream EXCEPT !.end = end,
                                !.arriving = IF end = "reset" THEN <<>> ELSE @]
    /\ UNCHANGED readerCalled
    /\ ReaderOnly

ReaderInit ==
    /\ stream = Reader_new
    /\ readerCalled = [op |-> "new", res |-> "Ok", msg |-> <<>>]

ReaderNext ==
    \/ reader_decode
    \/ reader_decode_maybe
    \/ reader_finished
    \/ \E b \in StreamBytes : reader_arrives(b)
    \/ \E end \in {"fin", "reset"} : reader_ends(end)

\* ------------------------------------------------------------------------
\* Properties of a track (serve/track.rs), checked under SpecTrack
\* ------------------------------------------------------------------------

\* A step that is a call of a TrackPublisher method that inserts.
InsertCall ==
    \/ \E id \in GroupIds : create_group(id)
    \/ \E g \in GroupIds, o \in ObjectIds : write_object(g, o)
    \/ \E g \in GroupIds, o \in ObjectIds : create_object(g, o)
    \/ \E so \in SendOrders : create_stream(so)
    \/ \E g \in GroupIds, o \in ObjectIds : write_datagram(g, o)

\* A step that is a call of any TrackPublisher method.
PublisherCall == InsertCall \/ \E err \in CloseErrors : close(err)

\* The call is refused and changes nothing; on an open track the error is Mode
\* (a closed track answers every call with the error that closed it).
RefusedForMode ==
    /\ called' # "Ok"
    /\ state.closed = "Ok" => called' = "Mode"
    /\ state' = state

C2_LatestGroupWins ==
    [][ \A r \in Watchers :
          next(r) /\ state.cache.kind = "Group" /\ subscribers'[r].count = subscribers[r].count + 1
          => /\ subscribers'[r].item.group_id = latest
             /\ subscribers[r].count > 0 => subscribers[r].item.group_id < latest
      ]_vars

\* C2 witness: groups 1, 2 and 3 were created one after the other, and a
\* reader whose first next() came after that holds group 3 as its only event.
C2_Witness ==
    /\ state.cache.kind = "Group" /\ state.epoch = 3
    /\ \E r \in Watchers :
          /\ subscribers[r].alive /\ subscribers[r].count = 1
          /\ subscribers[r].item.group_id = 3 /\ subscribers[r].item.seq = 3

\* C3 (as claimed): drop closes.  Once the TrackPublisher is dropped, no
\* TrackSubscriber is left waiting in next(): each gets its pending event or
\* Ok(None).
C3_DropCloses ==
    publisher = "dropped" =>
        \A r \in Alive : track_next(state, subscribers[r].epoch).ret # "Pending"

C5_CreateGroup ==
    [][ \A id \in GroupIds :
          create_group(id) /\ state.closed = "Ok" /\ state.cache.kind \in {"Init", "Group"}
          => IF state.cache.kind = "Group" /\ state.cache.items[1].group_id = id
                THEN called' = "Duplicate" /\ state' = state
             ELSE IF state.cache.kind = "Group" /\ state.cache.items[1].group_id > id
                THEN called' = "Ok" /\ state' = state
             ELSE /\ called' = "Ok"
                  /\ state'.cache.kind = "Group"
                  /\ Len(state'.cache.items) = 1
                  /\ state'.cache.items[1].group_id = id
                  /\ state'.epoch = state.epoch + 1
                  /\ state'.closed = "Ok"
                  /\ insert_group(state', id).res = "Duplicate"
      ]_vars

\* C5 witness: a second create_group with the cached id was refused.
C5_Witness ==
    state.cache.kind = "Group" /\ state.closed = "Ok" /\ called = "Duplicate" /\ state.epoch = 2

\* C6: a call that fails with Mode leaves cache, epoch and closed unchanged;
\* after a failed create_stream on an open Group-mode track every create_group
\* with a higher id still succeeds and every reader then gets that group.
C6_ModeFailureIsClean ==
    [][ /\ PublisherCall /\ called' = "Mode" => state' = state
        /\ \A so \in SendOrders :
              create_stream(so) /\ called' = "Mode" /\ state.cache.kind = "Group"
              => \A id \in GroupIds :
                    id > state'.cache.items[1].group_id
                    => LET r == insert_group(state', id)
                       IN  /\ r.res = "Ok"
                           /\ r.state.cache.items[1].group_id = id
                           /\ \A s \in Alive :
                                 LET n == track_next(r.state, subscribers[s].epoch)
                                 IN  n.ret = "Some" /\ n.item.group_id = id
      ]_vars

\* C6 witness: create_stream has just failed with Mode on an open track that
\* holds group 1, so that higher ids are left to create.
C6_Witness ==
    /\ called = "Mode" /\ state.closed = "Ok" /\ state.cache.kind = "Group"
    /\ state.cache.items[1].group_id = 1 /\ Alive # {}

StreamSurfaced == StreamObjectReader_read(streamState, Len(streamState.chunks)).ret

\* The StreamObjectWriter half of C7: the drop of the writer of an object
\* that is not closed and still has a reader makes the readers end on Size
\* when fewer bytes were written than the declared size, and on a clean end
\* (None) when exactly the declared size was written, 0 included.
StreamObjectWriter_DropChecksSize ==
    [][ stream_object_drop /\ streamState.closed = "Ok" /\ StreamAlive # {}
        => IF Sum(streamState.chunks) < streamObject.size
           THEN StreamSurfaced' = "Size"
           ELSE StreamSurfaced' = "None"
      ]_vars

\* A StreamObjectWriter was dropped short of its declared size, a reader left.
StreamObjectWriter_Witness ==
    /\ streamWriter.status = "dropped" /\ StreamAlive # {}
    /\ streamObject.size = 2 /\ Sum(streamState.chunks) = 1

\* C7 (as claimed): the drop of the writer of an open object closes it with
\* the size error when fewer bytes were written than the declared size, and
\* cleanly when exactly the declared size was written, 0 included; for both
\* object writers, the Publisher of cache/object.rs and StreamObjectWriter.
C7_DropChecksSize ==
    [][ /\ object_publisher_drop /\ objState.closed = "Ok"
           => IF Sum(objState.chunks) < objInfo.size
              THEN objState'.closed = "WrongSize"
              ELSE objState'.closed = "Done"
        /\ stream_object_drop /\ streamState.closed = "Ok" /\ StreamAlive # {}
           => IF Sum(streamState.chunks) < streamObject.size
              THEN StreamSurfaced' = "Size"
              ELSE StreamSurfaced' = "None"
      ]_vars

\* ------------------------------------------------------------------------
\* Closing a track or a cache object, checked under SpecClose
\* ------------------------------------------------------------------------

\* What a reader that has nothing left to deliver must get from a closed state.
Surfaced(closed) == IF closed = "Done" THEN "None" ELSE closed

\* C8: closing is one-shot.  Once State.closed of a track or of an object is
\* an error no step changes it: a later close returns the first error, the
\* Done of a drop handler does not replace it, and a reader with nothing left
\* to deliver gets the first error, Ok(None) exactly when that error is Done.
C8_CloseOnce ==
    [][ /\ state.closed # "Ok" => state'.closed = state.closed
        /\ objState.closed # "Ok" => objState'.closed = objState.closed
        /\ \A err \in CloseErrors :
              close(err) /\ state.closed # "Ok" => called' = state.closed
        /\ \A err \in ObjectCloseErrors :
              object_publisher_close(err) /\ objState.closed # "Ok" => objCalled' = objState.closed
        /\ \A r \in Watchers :
              subscribers'[r].alive /\ state'.closed # "Ok" /\ subscribers'[r].epoch = state'.epoch
              => track_next(state', subscribers'[r].epoch).ret = Surfaced(state'.closed)
        /\ \A r \in Watchers :
              /\ objSubscribers'[r].alive /\ objState'.closed # "Ok"
              /\ objSubscribers'[r].index = Len(objState'.chunks)
              => Subscriber_chunk(objState', objSubscribers'[r].index).ret = Surfaced(objState'.closed)
      ]_vars

\* C8 witness: a track closed with an error other than Done has lost its last
\* TrackSubscriber since, and a later close was answered with that error.
C8_Witness ==
    state.closed = "Closed" /\ Alive = {} /\ called = "Closed"

\* ------------------------------------------------------------------------
\* Properties of the handshake (session.rs), checked under SpecSession
\* ------------------------------------------------------------------------

\* The handshake table: <<local role, peer role, outcome>>.
RoleTable ==
    { <<"Both", "Both", "Both">>,
      <<"Publisher", "Both", "Publisher">>,
      <<"Subscriber", "Both", "Subscriber">>,
      <<"Both", "Publisher", "Subscriber">>,
      <<"Subscriber", "Publisher", "Subscriber">>,
      <<"Publisher", "Publisher", "RoleIncompatible">>,
      <<"Both", "Subscriber", "Publisher">>,
      <<"Publisher", "Subscriber", "Publisher">>,
      <<"Subscriber", "Subscriber", "RoleIncompatible">> }

\* C10: role negotiation follows the handshake table on both sides: whenever
\* accept_role or connect_role has decided on a role, the outcome is the
\* table's entry for its own role and the role in the peer's SETUP.
C10_RoleTable ==
    /\ server.pc \in {"ok", "err"} /\ "DRAFT_03" \in c2s.versions
          => <<server.role, c2s.role, server.result>> \in RoleTable
    /\ client.pc \in {"ok", "err"} /\ s2c.sent
          => <<client.role, s2c.role, client.result>> \in RoleTable

\* C10 witness: both sides have decided, one of them on a downgrade.
C10_Witness ==
    /\ server.pc = "ok" /\ server.role = "Publisher" /\ server.result = "Publisher"
    /\ client.pc = "ok" /\ client.role = "Both" /\ client.result = "Subscriber"

\* Both sides of the handshake ran this implementation to the end.
BothDecided == client.pc \in {"ok", "err"} /\ server.pc \in {"ok", "err"}

\* C11 (as claimed): when a Publisher-only client connects to a
\* Publisher-only server, or Subscriber-only to Subscriber-only, both
\* accept_role and connect_role return RoleIncompatible.
C11_BothReportIncompatible ==
    /\ BothDecided
    /\ client.role = server.role /\ client.role \in {"Publisher", "Subscriber"}
    => server.result = "RoleIncompatible" /\ client.result = "RoleIncompatible"

\* The handshake with the two configurations exchanged: what accept_role
\* configured with the client's role returns to a client configured with the
\* server's role, and what that client's connect_role returns.
SwappedServer == accept_result(client.role, Setup(server.role, {"DRAFT_03"}))

SwappedClient ==
    IF SwappedServer \in Roles THEN connect_downgrade(server.role, SwappedServer) ELSE "Decode"

\* C12: when the handshake between two sides of this implementation
\* succeeds, the handles are complementary (the client holds a Publisher iff
\* the server holds a Subscriber, and a Subscriber iff the server holds a
\* Publisher), and exchanging which configuration connects and which accepts
\* gives each configuration the same role.
C12_Complementary ==
    client.pc = "ok" /\ server.pc = "ok"
    => /\ Session_new(client.result).publisher = Session_new(server.result).subscriber
       /\ Session_new(client.result).subscriber = Session_new(server.result).publisher
       /\ SwappedServer = client.result
       /\ SwappedClient = server.result

\* C12 witness: a Publisher-only client and a server configured for Both
\* have finished the handshake, the server downgraded to Subscriber.
C12_Witness ==
    /\ client.pc = "ok" /\ client.role = "Publisher" /\ client.result = "Publisher"
    /\ server.pc = "ok" /\ server.role = "Both" /\ server.result = "Subscriber"

\* ------------------------------------------------------------------------
\* Properties of the running session, checked under SpecRun
\* ------------------------------------------------------------------------

\* The Session::run half of C13: a control message for a handle the session
\* does not hold, or an inbound stream without a Subscriber handle, ends
\* Session::run with RoleViolation.
Session_RoleViolationFatal ==
    [][ /\ \A class \in MessageClasses :
              /\ run_recv(class)
              /\ ~(IF class = "Publisher" THEN session.subscriber ELSE session.publisher)
              => session'.run = "RoleViolation"
        /\ \A res \in StreamResults :
              run_streams_accept(res) /\ ~session.subscriber => session'.run = "RoleViolation"
      ]_vars

\* C13 (as claimed): a message or stream for a role that was not negotiated
\* is fatal: it ends Session::run, and likewise the run of the Subscriber of
\* session/subscriber.rs, with RoleViolation.
C13_RoleViolationFatal ==
    [][ /\ \A class \in MessageClasses :
              /\ run_recv(class)
              /\ ~(IF class = "Publisher" THEN session.subscriber ELSE session.publisher)
              => session'.run = "RoleViolation"
        /\ \A res \in StreamResults :
              run_streams_accept(res) /\ ~session.subscriber => session'.run = "RoleViolation"
        /\ \A known \in BOOLEAN :
              run_inbound("Subscriber", known) => inbound'.run = "RoleViolation"
      ]_vars

\* C14 (as claimed): an error of one inbound stream or of one subscription
\* does not end the loop that met it: Session::run, Subscriber::run and the
\* relay's serve_publisher are still running after it.
C14_PerTrackErrorsKeepSession ==
    [][ /\ \A i \in 1..MaxTasks :
              run_streams_next(i) /\ session.tasks[i] \in {"NotFound", "Decode"}
              => session'.run = "running"
        /\ \A res \in StreamResults : subscriber_run_streams(res) => inbound'.run = "running"
        /\ \A res \in ServeResults :
              serve_publisher_subscribed(FALSE, res) => relay'.run = "running"
        /\ \A i \in 1..MaxTasks : serve_publisher_next(i) => relay'.run = "running"
      ]_vars

\* ------------------------------------------------------------------------
\* Properties of the publisher side of a session, checked under SpecPublisher
\* ------------------------------------------------------------------------

\* The Announce handles that are held and not closed.
LiveAnnounces == {h \in Handles : announced[h].status = "held" /\ announced[h].closed = "Ok"}

\* C15: announce(ns) returns Duplicate exactly when ns has an entry in the
\* announce map, and then changes nothing; two live Announce handles never
\* have one namespace, and a live handle is the entry of its namespace.
C15_OneAnnouncePerNamespace ==
    /\ [](\A h \in LiveAnnounces : announces[announced[h].namespace] = h)
    /\ [][ \A namespace \in Namespaces :
              announce(namespace)
              => /\ (pubCalled' = "Duplicate") = (announces[namespace] # 0)
                 /\ announces[namespace] # 0
                    => UNCHANGED <<announces, announced, subscribed, unknown, outgoing>>
                 /\ announces[namespace] = 0 => announces'[namespace] \in LiveAnnounces'
       ]_vars

\* C15 witness: a namespace whose entry was removed by an AnnounceError is
\* announced again: its first handle is still held, closed, the second is
\* live, and a further announce of it was refused.
C15_Witness ==
    /\ pubCalled = "Duplicate"
    /\ \E h1, h2 \in Handles :
          /\ h1 # h2 /\ announced[h1].namespace = announced[h2].namespace
          /\ announced[h1].status = "held" /\ announced[h1].closed = "Closed"
          /\ h2 \in LiveAnnounces

\* C16 (as claimed): every drop of an Announce handle queues an Unannounce
\* for its namespace and leaves the namespace without an entry.
C16_DropSendsUnannounce ==
    [][ \A h \in Handles :
           drop_announce(h)
           => /\ outgoing' = Append(outgoing, Unannounce(announced[h].namespace, h))
              /\ announces'[announced[h].namespace] = 0
      ]_vars

\* C16 (amended): the drop of an Announce handle that the peer has not closed
\* queues one Unannounce for its namespace and removes the namespace's entry;
\* the drop of a handle closed by an AnnounceError or AnnounceCancel queues
\* nothing and leaves the map as it is; no handle has two Unannounce queued.
C16_DropSendsUnannounceUnlessClosed ==
    /\ [](\A h \in Handles :
             Cardinality({i \in 1..Len(outgoing) : outgoing[i].by = h}) <= 1)
    /\ [][ \A h \in Handles :
              drop_announce(h)
              => IF announced[h].closed = "Ok"
                 THEN /\ outgoing' = Append(outgoing, Unannounce(announced[h].namespace, h))
                      /\ announces'[announced[h].namespace] = 0
                 ELSE UNCHANGED <<announces, outgoing>>
       ]_vars

\* C16 witness: a handle closed by the peer was dropped with nothing queued,
\* while its namespace is registered again for a handle that is live.
C16_Witness ==
    \E h1, h2 \in Handles :
       /\ announced[h1].status = "dropped" /\ announced[h1].closed = "Cancel"
       /\ announces[announced[h1].namespace] = h2 /\ h2 \in LiveAnnounces
       /\ outgoing = <<>>

\* The number of queues, unmatched and per announce, that hold the subscribe.
Places(id) ==
    Cardinality({i \in 1..Len(unknown) : unknown[i] = id})
    + Cardinality({<<h, i>> \in Handles \X (1..Cardinality(SubscribeIds)) :
                      i <= Len(announced[h].subscribes) /\ announced[h].subscribes[i] = id})

Increasing(q) == \A i, j \in 1..Len(q) : i < j => q[i] < q[j]

\* The Publishers half of C19: the ids Publishers::incoming hands out are
\* strictly increasing.
Publishers_IdsMonotonic == Increasing(contribute.issued)

\* C19 (as claimed): the subscription ids of a session, those of
\* Subscriber::run_source and those of Publishers::incoming, are strictly
\* increasing: each is greater than every id allocated before it.
C19_IdsMonotonic == Increasing(inbound.issued) /\ Increasing(contribute.issued)

\* C20 (as claimed): the chunks of a group stream are accepted as long as
\* they carry the object ids 0, 1, 2, ... in order: the k-th chunk (from 0)
\* is written iff every chunk up to it carried its own position, and the
\* stream fails with OutOfOrder exactly when a chunk did not; nothing is
\* written after that.
C20_GroupChunksInOrder ==
    LET InOrder(k) == \A i \in 1..k : groupStream.received[i] = i - 1
    IN  groupStream.run \in {"running", "Ok", "OutOfOrder"}
        => /\ (groupStream.run = "OutOfOrder") = ~InOrder(Len(groupStream.received))
           /\ \A k \in 1..Len(groupStream.received) :
                 InOrder(k) => /\ Len(groupStream.written) >= k
                               /\ groupStream.written[k] = k - 1
           /\ Len(groupStream.written) <= Len(groupStream.received)

\* ------------------------------------------------------------------------
\* Properties of a served subscription (session/subscribed.rs), checked
\* under SpecSubscribed
\* ------------------------------------------------------------------------

\* (group_id, object_id) ordered by group, then object.
LexLeq(p, q) == p[1] < q[1] \/ (p[1] = q[1] /\ p[2] <= q[2])

\* The largest of a set of positions, None for the empty set.
Largest(ps) == IF ps = {} THEN None ELSE CHOOSE p \in ps : \A q \in ps : LexLeq(q, p)

\* C18 (as claimed): the SubscribeDone of a served subscription carries in
\* last the largest (group_id, object_id), by group then object, among the
\* track's latest at SubscribeOk time and the objects served, also when the
\* track had no data at SubscribeOk time.
C18_LastIsLargest ==
    \A i \in 1..Len(serving.sent) :
        serving.sent[i].type = "SubscribeDone"
        => serving.sent[i].last =
              Largest(serving.objects \cup serving.datagrams
                      \cup (IF serving.latest = None THEN {} ELSE {serving.latest}))

\* What the code does keep: last is the latest at SubscribeOk time or one of
\* the objects served, and None when the track had no data at SubscribeOk time.
State_LastIsServed ==
    \A i \in 1..Len(serving.sent) :
        serving.sent[i].type = "SubscribeDone"
        => /\ serving.sent[i].last
                 \in serving.objects \cup serving.datagrams \cup {serving.latest}
           /\ serving.latest = None => serving.sent[i].last = None

\* ------------------------------------------------------------------------
\* Properties of the subscriber's map (session/subscriber.rs,
\* session/subscribe.rs), checked under SpecSubscribe
\* ------------------------------------------------------------------------

\* What the code keeps of C21: a terminal message removes its id from the
\* map and touches no other subscription, it closes the track with its
\* error if the receiving half still holds the writer, it returns NotFound
\* and changes nothing for an id that is not in the map, and a data stream
\* for such an id fails with NotFound.
Subscriber_TerminalRemoves ==
    [][ /\ \A id \in SubscribeIds, err \in TerminalErrors :
              recv_subscribe_error(id, err)
              => /\ \A o \in SubscribeIds \ {id} :
                       subscribes'[o] = subscribes[o] /\ tracks'[o] = tracks[o]
                 /\ IF subscribes[id].status = "active"
                    THEN /\ subscribes'[id].status = "removed"
                         /\ subscribes[id].writer # "None"
                            => /\ tracks'[id].closed = err
                               /\ track_next(tracks'[id], tracks'[id].epoch).ret = err
                    ELSE /\ recvCalled' = "NotFound"
                         /\ subscribes' = subscribes /\ tracks' = tracks
        /\ \A id \in SubscribeIds, group_id \in GroupIds :
              recv_group(id, group_id) /\ subscribes[id].status # "active"
              => recvCalled' = "NotFound" /\ subscribes' = subscribes /\ tracks' = tracks
      ]_vars

\* C21 (as claimed): a terminal message for an id in the map removes the id
\* and closes its track with the message's error, which a reader that has
\* read all then gets from next(); for an id that is not in the map it
\* returns NotFound and changes nothing; no other subscription is touched;
\* and a data stream for an id that is not in the map fails with NotFound.
C21_TerminalRemovesAndCloses ==
    [][ /\ \A id \in SubscribeIds, err \in TerminalErrors :
              recv_subscribe_error(id, err)
              => /\ \A o \in SubscribeIds \ {id} :
                       subscribes'[o] = subscribes[o] /\ tracks'[o] = tracks[o]
                 /\ IF subscribes[id].status = "active"
                    THEN /\ subscribes'[id].status = "removed"
                         /\ tracks'[id].closed = err
                         /\ track_next(tracks'[id], tracks'[id].epoch).ret = err
                    ELSE /\ recvCalled' = "NotFound"
                         /\ subscribes' = subscribes /\ tracks' = tracks
        /\ \A id \in SubscribeIds, group_id \in GroupIds :
              recv_group(id, group_id) /\ subscribes[id].status # "active"
              => recvCalled' = "NotFound" /\ subscribes' = subscribes /\ tracks' = tracks
      ]_vars

\* C22 (as claimed): on a subscription whose track is open and in Init or
\* Datagram mode every datagram is accepted and becomes the cached one, the
\* second as the first.
C22_DatagramsAccepted ==
    [][ \A id \in SubscribeIds, p \in Positions :
            /\ recv_datagram(id, p[1], p[2])
            /\ subscribes[id].status = "active"
            /\ tracks[id].closed = "Ok"
            /\ tracks[id].cache.kind \in {"Init", "Datagram"}
            => /\ recvCalled' = "Ok"
               /\ tracks'[id].cache.kind = "Datagram"
               /\ tracks'[id].cache.items[1].group_id = p[1]
               /\ tracks'[id].cache.items[1].object_id = p[2]
      ]_vars

\* What the code keeps: State::insert_datagram itself accepts a datagram
\* in Init and in Datagram mode and replaces the cached one.
State_insert_datagram_Overwrites ==
    \A id \in SubscribeIds, p \in Positions :
        tracks[id].closed = "Ok" /\ tracks[id].cache.kind \in {"Init", "Datagram"}
        => LET c == insert_datagram(tracks[id], p[1], p[2])
           IN  c.res = "Ok" /\ c.state.cache.kind = "Datagram"
               /\ c.state.cache.items[1].group_id = p[1]
               /\ c.state.cache.items[1].object_id = p[2]

\* C38 (as claimed): when a data header on an active subscription is
\* refused with Mode or Duplicate, the subscription's writer is the one it
\* was before the call, and the header of a higher group id that was valid
\* before the call is as valid after it.
C38_ErrorKeepsWriter ==
    [][ /\ \A id \in SubscribeIds, group_id \in GroupIds :
              /\ recv_group(id, group_id)
              /\ subscribes[id].status = "active"
              /\ subscribes[id].writer # "None"
              /\ recvCalled' \in {"Mode", "Duplicate"}
              => /\ subscribes'[id].writer = subscribes[id].writer
                 /\ \A later \in GroupIds :
                        SubscribeRecv_group(subscribes'[id], tracks'[id], later).res
                            = SubscribeRecv_group(subscribes[id], tracks[id], later).res
        /\ \A id \in SubscribeIds, p \in Positions :
              /\ recv_datagram(id, p[1], p[2])
              /\ subscribes[id].status = "active"
              /\ subscribes[id].writer # "None"
              /\ recvCalled' \in {"Mode", "Duplicate"}
              => subscribes'[id].writer = subscribes[id].writer
      ]_vars

\* What the code keeps: a refused header leaves the track's state as it
\* was; only the receiver's writer is gone.
SubscribeRecv_ErrorKeepsTrack ==
    [][ \A id \in SubscribeIds, group_id \in GroupIds :
            recv_group(id, group_id) /\ recvCalled' \in {"Mode", "Duplicate"}
            => tracks'[id] = tracks[id] ]_vars

\* C23 (as claimed): while a subscription is served, every Datagram event
\* of the track is handed to the transport: serve_datagram makes one
\* send_datagram call for it.
C23_DatagramTransmitted ==
    [][ \A p \in Positions :
            Subscribed_serve_datagram(p[1], p[2]) /\ serving'.called = "Ok"
            => serving'.transmitted = serving.transmitted \cup {p}
      ]_vars

\* ------------------------------------------------------------------------
\* Properties of the remotes (moq-relay remote.rs), checked under SpecRemotes
\* ------------------------------------------------------------------------

\* The remotes of a url whose RemoteProducer is queued or running.
ActiveRemotes(url) ==
    {r \in RemoteIds : remotes[r].url = url /\ remotes[r].status \in {"queued", "running"}}

C25_UnusedRemoteCloses ==
    \A r \in RemoteIds :
        /\ remotes[r].status = "running"
        /\ remotes[r].readers = 0
        /\ \A c \in Callers : ~(callers[c].pc = "routed" /\ callers[c].remote = r)
        => RemoteProducer_run_inner("Running", Holders(lookup, remotes, callers, r))
              = "Returned"

\* What the code keeps of C25: once run has returned, the url is removed
\* and a later route() to it makes a fresh remote.
RemotesProducer_RemovesReturned ==
    [][ \A r \in RemoteIds :
            RemotesProducer_remove(r) => lookup'[remotes[r].url] = 0
      ]_vars

\* ------------------------------------------------------------------------
\* Properties of the readers of one remote (moq-relay remote.rs), checked
\* under SpecRemote
\* ------------------------------------------------------------------------

LiveReaders(key) ==
    {g \in TrackReaderIds : remoteReaders[g].key = key /\ remoteReaders[g].status = "live"}

\* C26 (as claimed): under every interleaving of subscribe() calls and
\* reader drops, the readers of one key that are alive together are one
\* reader (one upstream track), and the map has that reader's entry under
\* the key as long as it lives: the drop handler of an older reader never
\* removes it.
C26_LiveReaderKeepsEntry ==
    \A key \in Keys :
        /\ Cardinality(LiveReaders(key)) <= 1
        /\ \A g \in LiveReaders(key) : remoteTracks[key] = g

\* What the code keeps: a subscribe that finds a live entry shares it, and
\* queues a TrackWriter only when it makes a reader.
RemoteConsumer_SharesLiveEntry ==
    [][ \A key \in Keys :
            remote_subscribe(key) /\ remoteTracks[key] # 0
            /\ remoteReaders[remoteTracks[key]].status = "live"
            => /\ remoteTracks' = remoteTracks
               /\ remoteRequested' = remoteRequested
               /\ remoteReaders'[remoteTracks[key]].strong
                  = remoteReaders[remoteTracks[key]].strong + 1
      ]_vars

\* ------------------------------------------------------------------------
\* Properties of a broadcast (model/broadcast.rs), checked under
\* SpecBroadcast
\* ------------------------------------------------------------------------

\* C27: while the broadcast is open, get_track for a name without a track
\* queues one request and maps the name to it, get_track for a name with a
\* track returns that track and queues nothing, so however many calls are
\* made a name is requested once; next_track hands out the requests in the
\* order they were made, each once.
C27_OneRequestPerName ==
    /\ [][ \A name \in TrackNames :
              get_track(name) /\ broadcast.closed = "Ok"
              => /\ bcCalled'.res = "Ok"
                 /\ bcCalled'.track = broadcast'.tracks[name]
                 /\ IF broadcast.tracks[name] = 0
                    THEN /\ broadcast'.requested = Append(broadcast.requested, bcCalled'.track)
                         /\ bcCalled'.track \notin
                               {broadcast.tracks[n] : n \in TrackNames}
                    ELSE /\ bcCalled'.track = broadcast.tracks[name]
                         /\ broadcast'.requested = broadcast.requested
       ]_vars
    /\ [](/\ \A i, j \in 1..Len(bcHistory.requested) :
                i # j => bcHistory.requested[i] # bcHistory.requested[j]
          /\ bcHistory.requested = bcHistory.handed \o broadcast.requested)

\* Two requests were made, the first was handed out, and a later get_track
\* of its name got the same track.
C27_Witness ==
    /\ Len(bcHistory.requested) = 2
    /\ Len(bcHistory.handed) = 1
    /\ bcCalled.op = "get_track" /\ bcCalled.res = "Ok"
    /\ bcCalled.track = bcHistory.handed[1]
    /\ handles.subscribers = 2

\* C28: the broadcast is closed once: by an explicit close, with its
\* error, or by the drop of the last Publisher or of the last Subscriber,
\* with Closed; closed does not change after that.  Once it is closed
\* create_track, insert_track and get_track of a name without a track fail
\* with that error and change nothing, get_track of a name with a track
\* returns the track, and next_track returns what is queued before it
\* reports the error.
C28_ClosedOnce ==
    /\ [][ /\ broadcast.closed # "Ok" => broadcast'.closed = broadcast.closed
           /\ broadcast.closed = "Ok" /\ broadcast'.closed # "Ok"
              => \/ \E err \in BroadcastErrors :
                       publisher_close(err) /\ broadcast'.closed = err
                 \/ publisher_drop /\ handles'.publishers = 0 /\ broadcast'.closed = "Closed"
                 \/ subscriber_drop /\ handles'.subscribers = 0 /\ broadcast'.closed = "Closed"
           /\ (publisher_drop /\ handles'.publishers = 0) => broadcast'.closed # "Ok"
           /\ (subscriber_drop /\ handles'.subscribers = 0) => broadcast'.closed # "Ok"
           /\ \A err \in BroadcastErrors : publisher_close(err) => broadcast'.closed # "Ok"
       ]_vars
    /\ [][ broadcast.closed # "Ok"
           => /\ \A name \in TrackNames :
                    create_track(name) \/ insert_track(name)
                    => bcCalled'.res = broadcast.closed /\ broadcast' = broadcast
              /\ \A name \in TrackNames :
                    get_track(name)
                    => /\ broadcast' = broadcast
                       /\ IF broadcast.tracks[name] = 0
                          THEN bcCalled'.res = broadcast.closed
                          ELSE bcCalled'.res = "Ok"
                               /\ bcCalled'.track = broadcast.tracks[name]
              /\ next_track
                 => IF broadcast.requested # <<>>
                    THEN /\ bcCalled'.res = "Ok"
                         /\ bcCalled'.track = Head(broadcast.requested)
                         /\ broadcast'.requested = Tail(broadcast.requested)
                    ELSE bcCalled'.res = broadcast.closed /\ broadcast' = broadcast
       ]_vars

\* The Subscribers are gone and the broadcast is closed; next_track has
\* just handed out a request that was queued before that.
C28_Witness ==
    /\ broadcast.closed = "Closed"
    /\ handles.subscribers = 0 /\ handles.publishers > 0
    /\ bcCalled.op = "next_track" /\ bcCalled.res = "Ok"
    /\ bcCalled.track = bcHistory.requested[Len(bcHistory.requested)]

\* ------------------------------------------------------------------------
\* Properties of the varint codec (coding/varint.rs), checked under SpecCodec
\* ------------------------------------------------------------------------

\* C29: a value below 2^62 is encoded, and decoding a stream that starts
\* with its encoding gives the value back and reads exactly the encoding;
\* from_u64 refuses a value of 2^62 or more, and encoding a VarInt that
\* holds one fails and writes nothing.
C29_VarIntRoundTrip ==
    /\ codec.pc # "none" => (codec.made = "Ok") = (codec.value < 2 ^ ValueBits(8))
    /\ codec.pc \in {"encoded", "decoded", "short"}
       => IF codec.value < 2 ^ ValueBits(8)
          THEN codec.res = "Ok" /\ Len(codec.bytes) \in {1, 2, 4, 8}
          ELSE codec.res # "Ok" /\ codec.bytes = <<>>
    /\ codec.pc = "decoded"
       => /\ codec.decoded.res = "Ok"
          /\ codec.decoded.value = codec.value
          /\ codec.decoded.read = Len(codec.bytes)

\* A value that takes eight bytes was decoded from a stream with more in it.
C29_Witness ==
    /\ codec.pc = "decoded"
    /\ Len(codec.bytes) = 8
    /\ Len(codec.stream) > 8
    /\ codec.decoded.value = 2 ^ ValueBits(8) - 1

\* ------------------------------------------------------------------------
\* Properties of a group writer (serve/stream.rs), checked under SpecGroup
\* ------------------------------------------------------------------------

\* C30: the objects made by one group writer carry the object ids 0, 1,
\* 2, ... in the order they were made, so no two of them carry the same.
C30_ObjectIdsIncrease ==
    \A i \in 1..Len(groupState.objects) : groupState.objects[i].object_id = i - 1

\* A call that returns Ok adds one object to the group, and a call that
\* fails adds none.
StreamGroupWriter_OnePerCall ==
    [][(\E size \in Sizes : group_writer_create(size) \/ group_writer_write(size))
        => Len(groupState'.objects) = Len(groupState.objects)
                                      + (IF groupCalled' = "Ok" THEN 1 ELSE 0)]_vars

\* ------------------------------------------------------------------------
\* Properties of the object readers, checked under SpecObject
\* ------------------------------------------------------------------------

\* What a reader handle rd has returned is what chunks holds from the index
\* the handle was made with up to its index, in that order; a chunk it has
\* not returned yet is returned by its next pass; and it has reported the
\* end only with every chunk returned.
Delivered(rd, chunks, pass) ==
    rd.alive
    => /\ rd.index <= Len(chunks)
       /\ rd.got = SubSeq(chunks, rd.start + 1, rd.index)
       /\ rd.index < Len(chunks) => pass.ret = "Some" /\ pass.chunk = chunks[rd.index + 1]
       /\ rd.last \notin {"", "Some"} => rd.index = Len(chunks)

\* The chunks of an object are appended to and never taken away.
Kept(before, after) ==
    Len(after) >= Len(before) /\ SubSeq(after, 1, Len(before)) = before

\* C31: every object reader and every clone of it returns the chunks from
\* its index onward, in append order and each once, and reports the end,
\* None or the closing error, only after every chunk has been returned;
\* no chunk written is lost by a close or a drop of the writer.
C31_ChunkDelivery ==
    /\ [](\A r \in Watchers :
            /\ Delivered(objSubscribers[r], objState.chunks,
                         Subscriber_chunk(objState, objSubscribers[r].index))
            /\ Delivered(streamReaders[r], streamState.chunks,
                         StreamObjectReader_read(streamState, streamReaders[r].index)))
    /\ [][Kept(objState.chunks, objState'.chunks)
          /\ Kept(streamState.chunks, streamState'.chunks)]_vars

\* A clone made after the first chunk has returned the second and then the
\* error the writer closed with.
C31_Witness ==
    \E r \in Watchers :
        /\ streamReaders[r].alive
        /\ streamReaders[r].start = 1
        /\ Len(streamState.chunks) = 2
        /\ streamState.chunks[1] # streamState.chunks[2]
        /\ streamReaders[r].got = <<streamState.chunks[2]>>
        /\ streamReaders[r].last = "Closed"

\* C32: StreamGroupReader::next returns the objects of the group in the
\* order they were appended, the first appended first and each once, never
\* indexes past the end of the objects, and returns None only with the
\* group ended and every object returned.
C32_GroupReaderInOrder ==
    /\ groupReader.status # "panicked"
    /\ groupReader.got = [i \in 1..Len(groupReader.got) |-> i]
    /\ groupReader.last = "None"
       => groupState.terminated /\ Len(groupReader.got) = Len(groupState.objects)

\* ------------------------------------------------------------------------
\* The replay of cached objects (serve/track.rs), checked under SpecTrack
\* ------------------------------------------------------------------------

\* C33: in object mode the cursor of a reader is never past the epoch of
\* the state, and an object next() returns is one of the cached vector,
\* among its last (epoch - cursor), inserted after everything the reader
\* returned before and of no older group than the last one returned; the
\* cursor moves to the epoch the object was inserted at.
C33_ObjectReplay ==
    /\ [](\A r \in Watchers : subscribers[r].alive => subscribers[r].epoch <= state.epoch)
    /\ [][\A r \in Watchers :
            next(r) /\ state.cache.kind = "Object"
                    /\ subscribers'[r].count > subscribers[r].count
            => LET it == subscribers'[r].item
                   prev == subscribers[r].item
                   items == state.cache.items
               IN  /\ \E i \in 1..Len(items) :
                          /\ items[i] = it
                          /\ Len(items) - i + 1 <= state.epoch - subscribers[r].epoch
                   /\ it.seq > subscribers[r].epoch
                   /\ it.seq = subscribers'[r].epoch
                   /\ subscribers[r].count > 0
                      => it.seq > prev.seq /\ it.group_id >= prev.group_id]_vars

\* A reader took an object, a newer group cleared the vector and put two
\* objects in it, and the reader took both.
C33_Witness ==
    \E r \in Watchers :
        /\ subscribers[r].alive
        /\ state.cache.kind = "Object"
        /\ Len(state.cache.items) = 2
        /\ state.epoch = 3
        /\ subscribers[r].count = 3
        /\ subscribers[r].item = state.cache.items[2]

\* ------------------------------------------------------------------------
\* Properties of the wakeup of a reader, checked under SpecWatch
\* ------------------------------------------------------------------------

Blocked(r) == watchers[r].pc \in {"unlocked", "waiting"}

Suspended(t) == ctlTasks[t].pc \in {"send.lock", "recv.lock", "encode", "decode"}

\* C35: no task is suspended at an await point while it holds a lock on
\* shared session state.
C35_NoLockAcrossAwait ==
    \A t \in ControlTasks : Suspended(t) => ctl.send # t /\ ctl.recv # t

\* The mutexes do what they are there for: one task at a time writes on
\* the stream and one reads from it, and a mutex is held by the task that
\* is at the stream and by no other.
Control_OneAtATime ==
    /\ \A t \in ControlTasks : (ctl.send = t) = (ctlTasks[t].pc = "encode")
    /\ \A t \in ControlTasks : (ctl.recv = t) = (ctlTasks[t].pc = "decode")

\* ------------------------------------------------------------------------
\* The messages of one inbound subscription, checked under SpecSubscribed
\* ------------------------------------------------------------------------

Terminal(m) == m.type \in {"SubscribeError", "SubscribeDone"}

\* At most one terminal message is enqueued, and every terminal message
\* is of the kind that goes with what was enqueued before it.
Subscribed_OneTerminal ==
    \A i \in 1..Len(serving.sent) :
        Terminal(serving.sent[i])
        => /\ \A j \in 1..Len(serving.sent) : Terminal(serving.sent[j]) => j = i
           /\ (serving.sent[i].type = "SubscribeDone")
              = (\E j \in 1..(i - 1) : serving.sent[j].type = "SubscribeOk")

\* C36: for one subscription id at most one terminal message is enqueued,
\* SubscribeError only with no SubscribeOk before it and SubscribeDone only
\* with one, and no SubscribeOk is enqueued after the terminal message.
C36_TerminalIsLast ==
    /\ Subscribed_OneTerminal
    /\ \A i \in 1..Len(serving.sent) :
           Terminal(serving.sent[i])
           => \A j \in (i + 1)..Len(serving.sent) : serving.sent[j].type # "SubscribeOk"

\* ------------------------------------------------------------------------
\* Properties of the issue of a subscription, checked under SpecIssue
\* ------------------------------------------------------------------------

Subscriber_run_source_StoresFirst ==
    \A id \in issue.wire : issue.via[id + 1] = "run_source" => id \in issue.stored

\* ------------------------------------------------------------------------
\* Properties of an announce handle (publisher/announce.rs), checked under
\* SpecClaimed
\* ------------------------------------------------------------------------

\* C39 (as claimed): the drop of the last clone of an Announce never
\* panics, whether or not the state was closed before and whether or not
\* the session still accepts messages, and no announce has more than one
\* Unannounce sent.
C39_DropNeverFails ==
    /\ [][ \A namespace \in Namespaces :
              announce_drop(namespace) => claimedCalled' # "Panic" ]_vars
    /\ [](\A namespace \in Namespaces : claimed[namespace].sent <= 1)

\* What the code keeps: Unannounce is sent at most once per announce, and a
\* close of a closed state sends nothing.
AnnounceState_OneUnannounce ==
    /\ [](\A namespace \in Namespaces : claimed[namespace].sent <= 1)
    /\ [][ \A namespace \in Namespaces :
              claimed[namespace].closed # "Ok"
              => claimed'[namespace].sent = claimed[namespace].sent ]_vars

\* ------------------------------------------------------------------------
\* Properties of the Reader (moq-transfork coding/reader.rs), checked under
\* SpecReader
\* ------------------------------------------------------------------------

\* C40 (as claimed): decode_maybe returns Ok(None) exactly when the stream
\* has ended and no byte is unread, and when the unread bytes, buffered or
\* arrived, hold a whole message it returns Ok(Some(message)) with that
\* message.
C40_DecodeMaybe ==
    [][ reader_decode_maybe
        => LET unread == stream.buffer \o stream.arriving
           IN  /\ readerCalled'.res = "None" <=> (unread = <<>> /\ stream.end = "fin")
               /\ T_decode(unread).res = "Ok"
                  => /\ readerCalled'.res = "Some"
                     /\ readerCalled'.msg = T_decode(unread).msg
      ]_vars

\* What the code keeps: Ok(None) is returned exactly at the end of a
\* stream with no unread byte, and decode itself returns the message the
\* unread bytes hold.
Reader_NoneAtEnd ==
    [][ /\ reader_decode_maybe
           => (readerCalled'.res = "None"
               <=> (stream.buffer \o stream.arriving = <<>> /\ stream.end = "fin"))
        /\ reader_decode /\ T_decode(stream.buffer \o stream.arriving).res = "Ok"
           => /\ readerCalled'.res = "Ok"
              /\ readerCalled'.msg = T_decode(stream.buffer \o stream.arriving).msg
      ]_vars

\* ------------------------------------------------------------------------
\* Specifications
\* ------------------------------------------------------------------------

Init ==
    /\ TrackInit /\ ObjectInit /\ StreamObjectInit /\ SessionInit /\ RunInit
    /\ PublisherInit /\ SubscribedInit /\ SubscribeInit
    /\ RemotesInit /\ RemoteInit /\ BroadcastInit /\ CodecInit /\ GroupInit /\ WatchInit /\ ControlInit /\ IssueInit
    /\ ClaimedInit /\ ReaderInit

\* One track, its publisher and its subscribers.
SpecTrack == Init /\ [][TrackNext]_vars

\* One object, a cache object or a StreamObject, its writer and its readers.
ObjectsNext == ObjectNext \/ StreamObjectNext

SpecObject == Init /\ [][ObjectsNext]_vars

\* One handshake.
SpecSession == Init /\ [][SessionNext]_vars

\* A track or a cache object: each is explored while the other is untouched.
CloseNext ==
    \/ ObjectInit /\ TrackNext
    \/ TrackInit /\ ObjectNext

SpecClose == Init /\ [][CloseNext]_vars

\* The loops of one running session and of one relay connection.
SpecRun == Init /\ [][RunNext]_vars

\* The publisher side of one session: its announces and inbound subscribes.
SpecPublisher == Init /\ [][PublisherNext]_vars

\* One served subscription.
SpecSubscribed == Init /\ [][SubscribedNext]_vars

\* The subscriptions of one subscriber and what arrives for them.
SpecSubscribe == Init /\ [][SubscribeNext]_vars

\* The remote sessions of one relay and the callers of route().
SpecRemotes == Init /\ [][RemotesNext]_vars

\* The track readers of one remote.
SpecRemote == Init /\ [][RemoteNext]_vars

\* One broadcast, its Publisher and Subscriber handles.
SpecBroadcast == Init /\ [][BroadcastNext]_vars

\* One VarInt, encoded and decoded.
SpecCodec == Init /\ [][CodecNext]_vars

\* One group writer and the objects it makes.
SpecGroup == Init /\ [][GroupNext]_vars

\* One watched object and its readers.  A reader is a task of the runtime:
\* one that can take a step is scheduled.
SpecWatch ==
    /\ Init /\ [][WatchNext]_vars
    /\ \A r \in Watchers :
           WF_vars(watch_read(r)) /\ WF_vars(watch_await(r)) /\ WF_vars(watch_wake(r))

\* The tasks of one session on its control stream.
SpecControl == Init /\ [][ControlNext]_vars

\* The subscriptions one subscriber issues, and the peer's answers.
SpecIssue == Init /\ [][IssueNext]_vars

\* The announces of one publisher session, their clones and the session's
\* closes of them.
SpecClaimed == Init /\ [][ClaimedNext]_vars

\* One Reader, the calls on it and the peer that writes the stream.
SpecReader == Init /\ [][ReaderNext]_vars

====
